---- MODULE Spec2Model ----
(***************************************************************************)
(* A model of the DepthC3D trainer (src/trainer.py).                       *)
(*                                                                         *)
(* Spec      the training loop: Trainer.train, run_epoch, val, save_model. *)
(* FairSpec  the same loop with weak fairness (a single synchronous        *)
(*           thread always takes its next step).                           *)
(* SpecCtor  Trainer.__init__ step by step (its assertions, load_model),   *)
(*           followed by the training loop of one fixed option set.        *)
(* SpecCvo   the sparse CVO loss of one pair of point sets: the sampling   *)
(*           of compute_losses and calc_cvo_pose_loss, compute_cvo_loss.   *)
(* SpecDense the dense CVO loss of one pair of images: gen_innerp_dense,   *)
(*           calc_inp_from_dense, gen_cvo_loss_dense.                      *)
(* SpecLosses compute_losses on one batch: the disparity supervision, the  *)
(*           loop over the scales with the min-loss selection, the total.  *)
(***************************************************************************)
EXTENDS Integers, Sequences, FiniteSets, TLC

VARIABLES
    opt,          \* self.opt and the sizes of the two splits
    pc,           \* position of the control thread
    epoch,        \* self.epoch
    batch_idx,    \* enumerate(self.train_loader) index inside run_epoch
    step,         \* self.step
    train_flag,   \* self.train_flag
    grad,         \* backward passes summed into .grad since the last zero_grad
    applied,      \* parameters: the gradient sums applied by optimizer.step, in order
    adam_t,       \* optimizer state: number of optimizer.step calls
    lr_epochs,    \* model_lr_scheduler.step calls
    val_pos,      \* batches already drawn from the current self.val_iter
    val_drawn,    \* history: position (in its pass) of the batch each val() obtained
    val_calls,    \* history: number of val() calls
    fwd,          \* history: the last forward pass, <<kind, train_flag during it>>
    n_fwd,        \* history: training forward/backward passes so far
    epochs_run,   \* history: completed run_epoch calls
    ckpts,        \* history: one record per save_model call
    cfg,          \* the options __init__ validates and load_model reads
    built,        \* what __init__ has constructed so far
    models,       \* self.models: name -> state dict (key -> value)
    disk,         \* load_weights_folder: file (model name) -> saved dict
    err,          \* the assertion that ended __init__, "" when none
    cvo_pc,       \* position inside the CVO loss computation
    caller,       \* the method that samples: compute_losses or calc_cvo_pose_loss
    pts,          \* the two point sets before sampling, k -> sequence of points
    samp_idx,     \* history: the indices each side kept, <<>> when not sampled
    vector_to_cvo,\* vector_to_cvo: the two point sets handed to compute_cvo_loss
    cvo_loss,     \* what compute_cvo_loss_with_options returned
    dense_pc,     \* dense: position inside the dense CVO loss computation
    size,         \* dense: <<height, width>> of the two images
    depth,        \* dense: k -> depth of the plane image k shows
    mask,         \* dense: mask_pair, k -> set of valid pixels
    innerps,      \* dense: innerps of gen_innerp_dense, id_pair -> inner product
    dense_loss,   \* dense: what gen_cvo_loss_dense returned
    l_pc,         \* compute_losses: position
    l_opt,        \* compute_losses: the options it reads
    l_i,          \* compute_losses: scales already handled by the loop over scales
    losses,       \* compute_losses: the losses dict, key -> value
    total_loss,   \* compute_losses: total_loss
    l_last,       \* history: inputs and results of the last loop iteration
    b_pc,         \* process_batch: position
    b_opt,        \* process_batch: the options it reads
    b_inputs,     \* process_batch: the batch, has_gt and the disparities it holds
    b_outputs,    \* process_batch: the ground-truth keys written into outputs
    b_losses,     \* process_batch: the losses dict, key -> value
    b_err,        \* process_batch: the exception that ended it, "" when none
    a_pc,         \* get_xyz_aligned: position
    a_in,         \* get_xyz_aligned: id_pair, xyz1 and the pose it reads
    a_out,        \* get_xyz_aligned: what it returned or raised
    m_pc,         \* masks: position, from the dataset sample to the loss
    m_in,         \* masks: the projected lidar depth and the closing footprint
    m_inputs,     \* masks: inputs[("depth_mask", i, j)] and ("depth_mask_gt", i, j)
    m_used,       \* masks: the mask a CVO point set was selected with
    s_pc,         \* scales: position inside generate_images_pred / compute_losses
    s_opt,        \* scales: the options read
    s_i,          \* scales: iterations of the loop over opt.scales completed
    s_f,          \* scales: neighbouring frames handled in the current iteration
    s_outputs,    \* scales: outputs and locals, key -> scale of the tensor's size
    s_uses,       \* history: each operation with the scales of its operands
    k_pc,         \* loss keys: position inside compute_losses / run_epoch
    k_opt,        \* loss keys: the options read
    k_in,         \* loss keys: the loss of each sample of the batch
    k_i,          \* loss keys: iterations of the loop over opt.scales completed
    k_innerps,    \* loss keys: the keys of the dict gen_innerp_dense returned
    k_reads,      \* history: the frames gen_innerp_dense read
    k_losses,     \* loss keys: the losses dict, key -> value
    k_terms,      \* history: the (frame, scale) of each term added to the sums
    k_err,        \* loss keys: the exception that ended it, "" when none
    g_pc,         \* get_depth_related: position
    g_opt,        \* get_depth_related: frame_idxs and the sample's side
    g_i,          \* get_depth_related: frames of the loop completed
    g_velo,       \* get_depth_related: the frame velo_rect and P_rect_norm hold
    g_inputs,     \* get_depth_related: inputs, key -> the frame it was built from
    p_pc,         \* predict_poses: position
    p_opt,        \* predict_poses: the options read
    p_i,          \* predict_poses: neighbouring frames handled
    p_calls,      \* history: the input of each call of the pose network
    p_outputs,    \* predict_poses: outputs[("cam_T_cam", 0, f)]
    p_T           \* generate_images_pred: the transform used for each frame

tvars == <<opt, pc, epoch, batch_idx, step, train_flag, grad, applied, adam_t,
           lr_epochs, val_pos, val_drawn, val_calls, fwd, n_fwd, epochs_run, ckpts>>

cvars == <<cfg, built, models, disk, err>>

xvars == <<cvo_pc, caller, pts, samp_idx, vector_to_cvo, cvo_loss>>

dvars == <<dense_pc, size, depth, mask, innerps, dense_loss>>

lvars == <<l_pc, l_opt, l_i, losses, total_loss, l_last>>

bvars == <<b_pc, b_opt, b_inputs, b_outputs, b_losses, b_err>>

avars == <<a_pc, a_in, a_out>>

mvars == <<m_pc, m_in, m_inputs, m_used>>

svars == <<s_pc, s_opt, s_i, s_f, s_outputs, s_uses>>

kvars == <<k_pc, k_opt, k_in, k_i, k_innerps, k_reads, k_losses, k_terms, k_err>>

gvars == <<g_pc, g_opt, g_i, g_velo, g_inputs>>

pvars == <<p_pc, p_opt, p_i, p_calls, p_outputs, p_T>>

fvars == <<kvars, gvars, pvars>>

evars == <<bvars, avars, mvars, svars, fvars>>

(* The groups beside the one an action of these parts changes.             *)
beside_b == <<lvars, avars, mvars, svars, fvars>>

beside_a == <<lvars, bvars, mvars, svars, fvars>>

beside_m == <<lvars, bvars, avars, svars, fvars>>

beside_s == <<lvars, bvars, avars, mvars, fvars>>

beside_k == <<lvars, bvars, avars, mvars, svars, gvars, pvars>>

beside_g == <<lvars, bvars, avars, mvars, svars, kvars, pvars>>

beside_p == <<lvars, bvars, avars, mvars, svars, kvars, gvars>>

nvars == <<lvars, evars>>

ovars == <<xvars, dvars, nvars>>

vars == <<tvars, cvars, ovars>>

(* No CVO loss is being computed.                                          *)
IdleSparse ==
    /\ cvo_pc = "idle"
    /\ caller = "none"
    /\ pts = <<>>
    /\ samp_idx = <<>>
    /\ vector_to_cvo = <<>>
    /\ cvo_loss = <<>>

IdleLosses ==
    /\ l_pc = "idle"
    /\ l_opt = <<>>
    /\ l_i = 0
    /\ losses = <<>>
    /\ total_loss = 0
    /\ l_last = <<>>

(* No batch is being processed.                                            *)
IdleBatch ==
    /\ b_pc = "idle"
    /\ b_opt = <<>>
    /\ b_inputs = <<>>
    /\ b_outputs = {}
    /\ b_losses = <<>>
    /\ b_err = ""

(* get_xyz_aligned is not being called.                                    *)
IdleAlign ==
    /\ a_pc = "idle"
    /\ a_in = <<>>
    /\ a_out = <<>>

(* No sample is being loaded.                                              *)
IdleMasks ==
    /\ m_pc = "idle"
    /\ m_in = <<>>
    /\ m_inputs = <<>>
    /\ m_used = {}

(* No image is being generated.                                            *)
IdleScales ==
    /\ s_pc = "idle"
    /\ s_opt = <<>>
    /\ s_i = 0
    /\ s_f = 0
    /\ s_outputs = <<>>
    /\ s_uses = {}

(* No losses dict is being filled or read.                                 *)
IdleKeys ==
    /\ k_pc = "idle"
    /\ k_opt = <<>>
    /\ k_in = <<>>
    /\ k_i = 0
    /\ k_innerps = <<>>
    /\ k_reads = {}
    /\ k_losses = <<>>
    /\ k_terms = <<>>
    /\ k_err = ""

(* No sample's depth maps are being loaded.                                *)
IdleDepth ==
    /\ g_pc = "idle"
    /\ g_opt = <<>>
    /\ g_i = 0
    /\ g_velo = <<>>
    /\ g_inputs = <<>>

(* No pose is being predicted.                                             *)
IdlePoses ==
    /\ p_pc = "idle"
    /\ p_opt = <<>>
    /\ p_i = 0
    /\ p_calls = <<>>
    /\ p_outputs = <<>>
    /\ p_T = <<>>

IdleFurther == IdleKeys /\ IdleDepth /\ IdlePoses

IdleExtra == IdleBatch /\ IdleAlign /\ IdleMasks /\ IdleScales /\ IdleFurther

IdleRest == IdleLosses /\ IdleExtra

IdleDense ==
    /\ dense_pc = "idle"
    /\ size = <<0, 0>>
    /\ depth = <<>>
    /\ mask = <<>>
    /\ innerps = <<>>
    /\ dense_loss = <<>>

-----------------------------------------------------------------------------
(* Bounds of the explored configurations.                                  *)
MaxEpochs == 3
MaxTrainSamples == 4
MaxValSamples == 2
MaxItersPerUpdate == 2
MaxSaveFrequency == 2
BatchSizes == {1, 2}
LogFrequencies == {1, 2}

(* run_epoch: "log less frequently after the first 2000 steps"             *)
LateLogPeriod == 2000

Options ==
    [num_epochs        : 1..MaxEpochs,
     batch_size        : BatchSizes,
     num_train_samples : 0..MaxTrainSamples,
     num_val_samples   : 0..MaxValSamples,
     iters_per_update  : 1..MaxItersPerUpdate,
     save_frequency    : 1..MaxSaveFrequency,
     log_frequency     : LogFrequencies]

LoaderLenKeepLast(samples, batch_size) == (samples + batch_size - 1) \div batch_size

(* DataLoader(..., drop_last=True): the number of batches of one pass.     *)
LoaderLen(samples, batch_size) == samples \div batch_size

train_loader_len == LoaderLen(opt.num_train_samples, opt.batch_size)
val_loader_len == LoaderLen(opt.num_val_samples, opt.batch_size)

(* __init__: self.num_total_steps                                          *)
num_total_steps == (opt.num_train_samples \div opt.batch_size) * opt.num_epochs

-----------------------------------------------------------------------------
(* What __init__ leaves in the fields the training loop uses.              *)
InitTrainer ==
    /\ pc = "constructed"
    /\ epoch = 0
    /\ batch_idx = 0
    /\ step = 0
    /\ train_flag = FALSE
    /\ grad = 0
    /\ applied = <<>>
    /\ adam_t = 0
    /\ lr_epochs = 0
    /\ val_pos = 0
    /\ val_drawn = <<>>
    /\ val_calls = 0
    /\ fwd = <<"none", FALSE>>
    /\ n_fwd = 0
    /\ epochs_run = 0
    /\ ckpts = <<>>

-----------------------------------------------------------------------------
(* Trainer.__init__ and load_model.                                        *)
(* Frame ids are written as strings: "0", "-1", "1" and the stereo "s".    *)
MaxCkptValue == 1

Heights == {32, 48}
Widths == {64, 40}
FrameIdLists == {<<"0">>, <<"0", "-1", "1">>, <<"-1", "0", "1">>}
ModelsToLoad == {<<"encoder">>, <<"encoder", "depth">>}

Configs ==
    [height              : Heights,
     width               : Widths,
     frame_ids           : FrameIdLists,
     use_stereo          : BOOLEAN,
     predictive_mask     : BOOLEAN,
     disable_automasking : BOOLEAN,
     load                : {"none", "missing", "present"},
     models_to_load      : ModelsToLoad]

DefaultConfig ==
    [height |-> 32, width |-> 64, frame_ids |-> <<"0", "-1", "1">>,
     use_stereo |-> FALSE, predictive_mask |-> FALSE, disable_automasking |-> FALSE,
     load |-> "none", models_to_load |-> <<"encoder", "depth">>]

SizeOk(c) == c.height % 32 = 0 /\ c.width % 32 = 0

FrameIdsUnchecked(c) == TRUE

FrameIdsOk(c) == c.frame_ids[1] = "0"

PredictiveMaskOk(c) == c.predictive_mask => c.disable_automasking

(* self.use_pose_net, computed before "s" is appended to frame_ids.        *)
UsePoseNet(c) == ~(c.use_stereo /\ c.frame_ids \in {<<"0">>, <<"0", "s">>})

BaseModels(c) ==
    {"encoder", "depth"} \cup (IF UsePoseNet(c) THEN {"pose_encoder", "pose"} ELSE {})

ModelNames(c) ==
    BaseModels(c) \cup (IF c.predictive_mask THEN {"predictive_mask"} ELSE {})

DataComponents ==
    {"train_loader", "val_loader", "val_iter", "writers", "geometry", "opts_saved"}

AllComponents(c) ==
    ModelNames(c) \cup {"optimizer", "lr_scheduler"} \cup DataComponents

(* The keys of a live model's state_dict (fixed by its architecture) and   *)
(* the keys an older architecture's checkpoint may hold besides.           *)
LiveKeys(n) == {"conv.weight", "bn.weight"}
ParamKeys(n) == LiveKeys(n) \cup {"old.weight"}
MetaKeys == {"height", "width", "use_stereo"}

FreshModels(c) == [n \in ModelNames(c) |-> [k \in LiveKeys(n) |-> 0]]

(* save_model: the dict written for one model; the encoder's also holds    *)
(* the image size and the stereo flag.                                     *)
SavedStateDict(n, state, c) ==
    IF n = "encoder"
      THEN [k \in (DOMAIN state) \cup MetaKeys |->
               IF k = "height" THEN c.height
               ELSE IF k = "width" THEN c.width
               ELSE IF k = "use_stereo" THEN (IF c.use_stereo THEN 1 ELSE 0)
               ELSE state[k]]
      ELSE state

(* The folders load_weights_folder may name: one file per model to load,   *)
(* each written by save_model from some (possibly older) architecture,     *)
(* and maybe adam.pth.                                                     *)
OldStates(n) ==
    UNION {[K -> 1..MaxCkptValue] : K \in SUBSET ParamKeys(n)}

Disks(c) ==
    [weights  : [{c.models_to_load[i] : i \in DOMAIN c.models_to_load} ->
                    UNION {OldStates(n) : n \in {"encoder", "depth"}}],
     has_adam : BOOLEAN,
     adam_t   : 1..MaxCkptValue]

NoDisk == [weights |-> <<>>, has_adam |-> FALSE, adam_t |-> 1]

SavedDisk(d, c) ==
    [d EXCEPT !.weights = [n \in DOMAIN d.weights |-> SavedStateDict(n, d.weights[n], c)]]

KeepAllKeys(pretrained_dict, model_dict) == pretrained_dict

(* load_model: {k: v for k, v in pretrained_dict.items() if k in model_dict} *)
FilterKeys(pretrained_dict, model_dict) ==
    [k \in (DOMAIN pretrained_dict) \cap (DOMAIN model_dict) |-> pretrained_dict[k]]

(* dict.update                                                             *)
DictUpdate(model_dict, new) ==
    [k \in (DOMAIN model_dict) \cup (DOMAIN new) |->
        IF k \in DOMAIN new THEN new[k] ELSE model_dict[k]]

(* load_model, one model: filter, update, load_state_dict.                 *)
LoadStateDict(model_dict, pretrained_dict) ==
    DictUpdate(model_dict, FilterKeys(pretrained_dict, model_dict))

(* The state after Trainer.__init__ returned.                              *)
Init ==
    /\ opt \in Options
    /\ InitTrainer
    /\ IdleSparse
    /\ IdleDense
    /\ IdleRest
    /\ cfg = DefaultConfig
    /\ built = AllComponents(DefaultConfig)
    /\ models = FreshModels(DefaultConfig)
    /\ disk = NoDisk
    /\ err = ""

(* train(): self.epoch = 0; self.step = 0; enter the epoch loop.           *)
Train ==
    /\ pc = "constructed"
    /\ epoch' = 0
    /\ step' = 0
    /\ pc' = "epoch"
    /\ UNCHANGED <<ovars, cvars, opt, batch_idx, train_flag, grad, applied, adam_t, lr_epochs,
                   val_pos, val_drawn, val_calls, fwd, n_fwd, epochs_run, ckpts>>

(* run_epoch(): set_train(), then start enumerating the training loader.   *)
RunEpochBegin ==
    /\ pc = "epoch"
    /\ train_flag' = TRUE
    /\ batch_idx' = 0
    /\ pc' = IF train_loader_len > 0 THEN "batch" ELSE "sched"
    /\ UNCHANGED <<ovars, cvars, opt, epoch, step, grad, applied, adam_t, lr_epochs,
                   val_pos, val_drawn, val_calls, fwd, n_fwd, epochs_run, ckpts>>

(* The condition under which run_epoch calls optimizer.step + zero_grad.   *)
UpdateDue(b, ipu) == b > 0 /\ b % ipu = 0

(* One loop body up to loss.backward(): process_batch, the conditional     *)
(* optimizer.step()/zero_grad(), then backward() adds this batch's         *)
(* gradient to what .grad holds.                                           *)
TrainBatch ==
    /\ pc = "batch"
    /\ fwd' = <<"train", train_flag>>
    /\ n_fwd' = n_fwd + 1
    /\ IF UpdateDue(batch_idx, opt.iters_per_update)
         THEN /\ applied' = Append(applied, grad)
              /\ adam_t' = adam_t + 1
              /\ grad' = 0 + 1
         ELSE /\ grad' = grad + 1
              /\ UNCHANGED <<applied, adam_t>>
    /\ pc' = "log"
    /\ UNCHANGED <<ovars, cvars, opt, epoch, batch_idx, step, train_flag, lr_epochs,
                   val_pos, val_drawn, val_calls, epochs_run, ckpts>>

(* A run_epoch whose late phase never logs.                                *)
NeverLate == FALSE

early_phase == batch_idx % opt.log_frequency = 0 /\ step < LateLogPeriod
late_phase == step % LateLogPeriod = 0

(* early_phase or late_phase: log_time, log("train"), then val().          *)
LogTrain ==
    /\ pc = "log"
    /\ early_phase \/ late_phase
    /\ pc' = "val"
    /\ UNCHANGED <<ovars, cvars, opt, epoch, batch_idx, step, train_flag, grad, applied, adam_t,
                   lr_epochs, val_pos, val_drawn, val_calls, fwd, n_fwd,
                   epochs_run, ckpts>>

LogSkip ==
    /\ pc = "log"
    /\ ~(early_phase \/ late_phase)
    /\ pc' = "inc"
    /\ UNCHANGED <<ovars, cvars, opt, epoch, batch_idx, step, train_flag, grad, applied, adam_t,
                   lr_epochs, val_pos, val_drawn, val_calls, fwd, n_fwd,
                   epochs_run, ckpts>>

(* val(): set_eval(); one batch from self.val_iter, re-created once when   *)
(* exhausted; a forward pass under no_grad; set_train().  When the fresh   *)
(* iterator is exhausted too, StopIteration leaves val() and ends the run  *)
(* with the models still in evaluation mode.                               *)
ValNext == val_pos < val_loader_len

ValNoRestart == FALSE

ValRestart == val_pos >= val_loader_len /\ 0 < val_loader_len

(* The iterator part of val() with the no_grad forward pass.               *)
ValDraw ==
    /\ val_calls' = val_calls + 1
    /\ IF ValNext
         THEN /\ val_pos' = val_pos + 1
              /\ val_drawn' = Append(val_drawn, val_pos + 1)
              /\ fwd' = <<"val", FALSE>>
              /\ train_flag' = TRUE
              /\ pc' = "inc"
         ELSE IF ValRestart
           THEN /\ val_pos' = 1
                /\ val_drawn' = Append(val_drawn, 1)
                /\ fwd' = <<"val", FALSE>>
                /\ train_flag' = TRUE
                /\ pc' = "inc"
           ELSE /\ val_pos' = 0
                /\ train_flag' = FALSE
                /\ pc' = "failed"
                /\ UNCHANGED <<val_drawn, fwd>>

ValCountsStep ==
    /\ pc = "val"
    /\ ValDraw
    /\ step' = step + 1
    /\ UNCHANGED <<ovars, cvars, opt, epoch, batch_idx, grad, applied, adam_t, lr_epochs,
                   n_fwd, epochs_run, ckpts>>

(* A val() that ends without set_train().                                  *)
ValLeavesEval ==
    /\ pc = "val"
    /\ val_calls' = val_calls + 1
    /\ IF ValNext \/ ValRestart
         THEN /\ val_pos' = IF ValNext THEN val_pos + 1 ELSE 1
              /\ val_drawn' = Append(val_drawn, IF ValNext THEN val_pos + 1 ELSE 1)
              /\ fwd' = <<"val", FALSE>>
              /\ train_flag' = FALSE
              /\ pc' = "inc"
         ELSE /\ val_pos' = 0
              /\ train_flag' = FALSE
              /\ pc' = "failed"
              /\ UNCHANGED <<val_drawn, fwd>>
    /\ UNCHANGED <<ovars, cvars, opt, epoch, batch_idx, step, grad, applied, adam_t, lr_epochs,
                   n_fwd, epochs_run, ckpts>>

Val ==
    /\ pc = "val"
    /\ ValDraw
    /\ UNCHANGED <<ovars, cvars, opt, epoch, batch_idx, step, grad, applied, adam_t, lr_epochs,
                   n_fwd, epochs_run, ckpts>>

(* self.step += 1, then the next batch or the end of the loader.           *)
IncStep ==
    /\ pc = "inc"
    /\ step' = step + 1
    /\ batch_idx' = batch_idx + 1
    /\ pc' = IF batch_idx + 1 < train_loader_len THEN "batch" ELSE "sched"
    /\ UNCHANGED <<ovars, cvars, opt, epoch, train_flag, grad, applied, adam_t, lr_epochs,
                   val_pos, val_drawn, val_calls, fwd, n_fwd, epochs_run, ckpts>>

(* self.model_lr_scheduler.step() ends run_epoch.                          *)
SchedulerStep ==
    /\ pc = "sched"
    /\ lr_epochs' = lr_epochs + 1
    /\ epochs_run' = epochs_run + 1
    /\ pc' = "save"
    /\ UNCHANGED <<ovars, cvars, opt, epoch, batch_idx, step, train_flag, grad, applied, adam_t,
                   val_pos, val_drawn, val_calls, fwd, n_fwd, ckpts>>

SaveDueOffByOne(e, freq) == e % freq = 0

(* train(): the checkpoint condition after run_epoch.                      *)
SaveDue(e, freq) == (e + 1) % freq = 0

(* save_model(): the folder is weights_<self.epoch>.                       *)
SaveFolder(e) == e

EpochLoopNext ==
    IF epoch + 1 < opt.num_epochs
      THEN epoch' = epoch + 1 /\ pc' = "epoch"
      ELSE epoch' = epoch /\ pc' = "done"

SaveModel ==
    /\ pc = "save"
    /\ SaveDue(epoch, opt.save_frequency)
    /\ ckpts' = Append(ckpts, [folder |-> SaveFolder(epoch), epoch |-> epoch,
                               batches |-> batch_idx, lr_epochs |-> lr_epochs,
                               adam_t |-> adam_t])
    /\ EpochLoopNext
    /\ UNCHANGED <<ovars, cvars, opt, batch_idx, step, train_flag, grad, applied, adam_t, lr_epochs,
                   val_pos, val_drawn, val_calls, fwd, n_fwd, epochs_run>>

SaveSkip ==
    /\ pc = "save"
    /\ ~SaveDue(epoch, opt.save_frequency)
    /\ EpochLoopNext
    /\ UNCHANGED <<ovars, cvars, opt, batch_idx, step, train_flag, grad, applied, adam_t, lr_epochs,
                   val_pos, val_drawn, val_calls, fwd, n_fwd, epochs_run, ckpts>>

Next ==
    \/ Train
    \/ RunEpochBegin
    \/ TrainBatch
    \/ LogTrain
    \/ LogSkip
    \/ Val
    \/ IncStep
    \/ SchedulerStep
    \/ SaveModel
    \/ SaveSkip

Spec == Init /\ [][Next]_vars

FairSpec == Init /\ [][Next]_vars /\ WF_vars(Next)

-----------------------------------------------------------------------------
(* Trainer.__init__, in the order of its statements.                       *)
CtorOptions ==
    {[num_epochs |-> 2, batch_size |-> 1, num_train_samples |-> 2,
      num_val_samples |-> 1, iters_per_update |-> 1, save_frequency |-> 2,
      log_frequency |-> 2]}

InitCtor ==
    /\ opt \in CtorOptions
    /\ IdleSparse
    /\ IdleDense
    /\ IdleRest
    /\ pc = "init"
    /\ epoch = 0
    /\ batch_idx = 0
    /\ step = 0
    /\ train_flag = FALSE
    /\ grad = 0
    /\ applied = <<>>
    /\ adam_t = 0
    /\ lr_epochs = 0
    /\ val_pos = 0
    /\ val_drawn = <<>>
    /\ val_calls = 0
    /\ fwd = <<"none", FALSE>>
    /\ n_fwd = 0
    /\ epochs_run = 0
    /\ ckpts = <<>>
    /\ cfg \in Configs
    /\ built = {}
    /\ models = <<>>
    /\ disk = NoDisk
    /\ err = ""

(* assert height % 32 == 0; assert width % 32 == 0                         *)
CtorCheckSize ==
    /\ pc = "init"
    /\ IF SizeOk(cfg)
         THEN pc' = "c_frames" /\ err' = err
         ELSE /\ pc' = "assert_failed"
              /\ err' = IF cfg.height % 32 # 0 THEN "height" ELSE "width"
    /\ UNCHANGED <<cfg, built, models, disk>>
    /\ UNCHANGED <<ovars, opt, epoch, batch_idx, step, train_flag, grad, applied, adam_t,
                   lr_epochs, val_pos, val_drawn, val_calls, fwd, n_fwd,
                   epochs_run, ckpts>>

(* assert frame_ids[0] == 0; use_pose_net; frame_ids.append("s")           *)
CtorCheckFrameIds ==
    /\ pc = "c_frames"
    /\ IF FrameIdsOk(cfg)
         THEN /\ pc' = "c_models"
              /\ err' = err
              /\ cfg' = IF cfg.use_stereo
                          THEN [cfg EXCEPT !.frame_ids = Append(@, "s")]
                          ELSE cfg
         ELSE /\ pc' = "assert_failed"
              /\ err' = "frame_ids"
              /\ cfg' = cfg
    /\ UNCHANGED <<built, models, disk>>
    /\ UNCHANGED <<ovars, opt, epoch, batch_idx, step, train_flag, grad, applied, adam_t,
                   lr_epochs, val_pos, val_drawn, val_calls, fwd, n_fwd,
                   epochs_run, ckpts>>

(* encoder, depth decoder and, with use_pose_net, the pose networks.       *)
CtorBuildModels ==
    /\ pc = "c_models"
    /\ models' = [n \in BaseModels(cfg) |-> [k \in LiveKeys(n) |-> 0]]
    /\ built' = built \cup BaseModels(cfg)
    /\ pc' = "c_pmask"
    /\ UNCHANGED <<cfg, disk, err>>
    /\ UNCHANGED <<ovars, opt, epoch, batch_idx, step, train_flag, grad, applied, adam_t,
                   lr_epochs, val_pos, val_drawn, val_calls, fwd, n_fwd,
                   epochs_run, ckpts>>

(* if predictive_mask: assert disable_automasking; build the mask decoder. *)
CtorPredictiveMask ==
    /\ pc = "c_pmask"
    /\ IF ~cfg.predictive_mask
         THEN pc' = "c_optim" /\ UNCHANGED <<models, built, err>>
         ELSE IF PredictiveMaskOk(cfg)
           THEN /\ pc' = "c_optim"
                /\ models' = [n \in ModelNames(cfg) |->
                                 IF n \in DOMAIN models THEN models[n]
                                 ELSE [k \in LiveKeys(n) |-> 0]]
                /\ built' = built \cup {"predictive_mask"}
                /\ err' = err
           ELSE /\ pc' = "assert_failed"
                /\ err' = "predictive_mask"
                /\ UNCHANGED <<models, built>>
    /\ UNCHANGED <<cfg, disk>>
    /\ UNCHANGED <<ovars, opt, epoch, batch_idx, step, train_flag, grad, applied, adam_t,
                   lr_epochs, val_pos, val_drawn, val_calls, fwd, n_fwd,
                   epochs_run, ckpts>>

(* optim.Adam and the StepLR scheduler.                                    *)
CtorOptimizer ==
    /\ pc = "c_optim"
    /\ built' = built \cup {"optimizer", "lr_scheduler"}
    /\ adam_t' = 0
    /\ lr_epochs' = 0
    /\ pc' = "c_load"
    /\ UNCHANGED <<cfg, models, disk, err>>
    /\ UNCHANGED <<ovars, opt, epoch, batch_idx, step, train_flag, grad, applied,
                   val_pos, val_drawn, val_calls, fwd, n_fwd, epochs_run, ckpts>>

(* if load_weights_folder is not None: load_model().  The folder's files   *)
(* are read here, so this is where their content is drawn.                 *)
CtorLoadModel ==
    /\ pc = "c_load"
    /\ CASE cfg.load = "none" ->
              /\ pc' = "c_data"
              /\ UNCHANGED <<models, disk, err, adam_t>>
         [] cfg.load = "missing" ->
              /\ pc' = "assert_failed"
              /\ err' = "load_weights_folder"
              /\ UNCHANGED <<models, disk, adam_t>>
         [] cfg.load = "present" ->
              \E d \in Disks(cfg) :
                 /\ disk' = SavedDisk(d, cfg)
                 /\ models' = [n \in DOMAIN models |->
                                  IF n \in DOMAIN d.weights
                                    THEN LoadStateDict(models[n], disk'.weights[n])
                                    ELSE models[n]]
                 /\ adam_t' = IF d.has_adam THEN d.adam_t ELSE adam_t
                 /\ pc' = "c_data"
                 /\ err' = err
    /\ UNCHANGED <<cfg, built>>
    /\ UNCHANGED <<ovars, opt, epoch, batch_idx, step, train_flag, grad, applied,
                   lr_epochs, val_pos, val_drawn, val_calls, fwd, n_fwd,
                   epochs_run, ckpts>>

(* datasets, the two loaders, self.val_iter, writers, the per-scale        *)
(* geometry modules, save_opts.                                            *)
CtorData ==
    /\ pc = "c_data"
    /\ built' = built \cup DataComponents
    /\ val_pos' = 0
    /\ pc' = "constructed"
    /\ UNCHANGED <<cfg, models, disk, err>>
    /\ UNCHANGED <<ovars, opt, epoch, batch_idx, step, train_flag, grad, applied, adam_t,
                   lr_epochs, val_drawn, val_calls, fwd, n_fwd, epochs_run, ckpts>>

NextCtor ==
    \/ CtorCheckSize
    \/ CtorCheckFrameIds
    \/ CtorBuildModels
    \/ CtorPredictiveMask
    \/ CtorOptimizer
    \/ CtorLoadModel
    \/ CtorData
    \/ Next

SpecCtor == InitCtor /\ [][NextCtor]_vars

-----------------------------------------------------------------------------
(* Claims about the training loop.                                         *)

Range(s) == {s[i] : i \in DOMAIN s}

(* C1: every optimizer step applies gradients accumulated from exactly     *)
(* iters_per_update backward passes, for any number of epochs and batches. *)
C1_EveryUpdateUsesItersPerUpdate ==
    \A i \in DOMAIN applied : applied[i] = opt.iters_per_update

(* C2: a val() call between two training batches leaves the parameters,    *)
(* the accumulated gradients, the optimizer state and self.step unchanged. *)
C2_ValLeavesTrainingState ==
    [][pc = "val" =>
          /\ applied' = applied
          /\ grad' = grad
          /\ adam_t' = adam_t
          /\ step' = step]_vars

C2_Witness ==
    /\ pc = "inc"
    /\ fwd[1] = "val"
    /\ grad > 0
    /\ Len(applied) > 0
    /\ batch_idx + 1 < train_loader_len

(* C3 as stated: every val() call obtains exactly one batch, whatever the  *)
(* validation loader, and the run never fails inside val().                *)
C3_EveryValCallDrawsABatch ==
    /\ Len(val_drawn) = val_calls
    /\ pc # "failed"

(* C3 amended: over a validation loader of at least one batch every val()  *)
(* call obtains exactly one batch, the batches follow the loader           *)
(* cyclically (a fresh pass starts with its first batch), and val() never  *)
(* fails.                                                                  *)
C3_CyclicValIterator ==
    val_loader_len >= 1 =>
        /\ pc # "failed"
        /\ Len(val_drawn) = val_calls
        /\ \A k \in DOMAIN val_drawn : val_drawn[k] = ((k - 1) % val_loader_len) + 1

C3_Witness ==
    /\ val_loader_len >= 2
    /\ val_calls > val_loader_len
    /\ val_drawn[val_calls] = 1
    /\ pc = "inc"

(* C4: save_model runs after epoch e iff (e + 1) is a multiple of          *)
(* save_frequency, after that epoch's batches and scheduler step; a        *)
(* completed run writes floor(num_epochs / save_frequency) checkpoints,    *)
(* each into its own weights_<epoch> folder.                               *)
EpochsDecided ==
    IF pc = "constructed" THEN 0
    ELSE IF pc = "done" THEN opt.num_epochs
    ELSE epoch

C4_CheckpointSchedule ==
    /\ \A i \in DOMAIN ckpts :
          /\ SaveDue(ckpts[i].epoch, opt.save_frequency)
          /\ ckpts[i].folder = ckpts[i].epoch
          /\ ckpts[i].batches = train_loader_len
          /\ ckpts[i].lr_epochs = ckpts[i].epoch + 1
    /\ {ckpts[i].epoch : i \in DOMAIN ckpts}
          = {e \in 0..(EpochsDecided - 1) : (e + 1) % opt.save_frequency = 0}
    /\ Cardinality({ckpts[i].folder : i \in DOMAIN ckpts}) = Len(ckpts)
    /\ pc = "done" => Len(ckpts) = opt.num_epochs \div opt.save_frequency

C4_Witness ==
    /\ pc = "done"
    /\ Len(ckpts) >= 1
    /\ Len(ckpts) < opt.num_epochs
    /\ train_loader_len >= 2

(* self.step counts the training batches and nothing else.                 *)
StepAccounting ==
    IF pc \in {"log", "val", "inc", "failed"}
      THEN step = n_fwd - 1
      ELSE step = n_fwd

AtDone ==
    pc = "done" =>
        /\ step = num_total_steps
        /\ epochs_run = opt.num_epochs

-----------------------------------------------------------------------------
(* Claims about __init__ and load_model.                                   *)

InvalidConfig(c) ==
    \/ c.height % 32 # 0
    \/ c.width % 32 # 0
    \/ c.frame_ids[1] # "0"
    \/ c.predictive_mask /\ ~c.disable_automasking

(* C6: an invalid configuration ends __init__ in one of its assertions,    *)
(* before any data loader is built, any batch drawn, any forward pass or   *)
(* optimizer step; no training state is reached from it.                   *)
C6_InvalidConfigFailsFast ==
    InvalidConfig(cfg) =>
        /\ pc \in {"init", "c_frames", "c_models", "c_pmask", "assert_failed"}
        /\ built \cap DataComponents = {}
        /\ n_fwd = 0 /\ fwd[1] = "none" /\ val_calls = 0 /\ val_drawn = <<>>
        /\ grad = 0 /\ applied = <<>> /\ adam_t = 0 /\ step = 0
        /\ pc = "assert_failed" =>
              err \in {"height", "width", "frame_ids", "predictive_mask"}
        /\ ~(ENABLED NextCtor) => pc = "assert_failed"

C6_Witness ==
    /\ InvalidConfig(cfg)
    /\ pc = "assert_failed"
    /\ err = "predictive_mask"
    /\ "encoder" \in built

(* C7: load_model gives every key present in both the checkpoint and the   *)
(* live model the checkpoint's value, leaves every key only in the live    *)
(* model as it was, and never adds a key that is only in the checkpoint    *)
(* (such as the encoder's height, width, use_stereo).                      *)
C7_LoadIsPartial ==
    [][(pc = "c_load" /\ pc' = "c_data" /\ cfg.load = "present") =>
          /\ DOMAIN models' = DOMAIN models
          /\ \A n \in DOMAIN models :
                IF n \in DOMAIN disk'.weights
                  THEN /\ DOMAIN models'[n] = DOMAIN models[n]
                       /\ \A k \in DOMAIN models[n] :
                             models'[n][k] = IF k \in DOMAIN disk'.weights[n]
                                               THEN disk'.weights[n][k]
                                               ELSE models[n][k]
                  ELSE models'[n] = models[n]]_vars

C7_Witness ==
    /\ pc = "c_data"
    /\ cfg.load = "present"
    /\ {"height", "old.weight", "conv.weight"} \subseteq DOMAIN disk.weights["encoder"]
    /\ "bn.weight" \notin DOMAIN disk.weights["encoder"]
    /\ models["encoder"]["conv.weight"] = disk.weights["encoder"]["conv.weight"]
    /\ models["encoder"]["bn.weight"] = 0
    /\ DOMAIN models["encoder"] = LiveKeys("encoder")

-----------------------------------------------------------------------------
(* The CVO loss.  Lengths are measured in units of ell * sqrt(2 ln 2) of   *)
(* their domain (ell = geo_scale for xyz, 0.4 for hsv), so that the kernel *)
(* exp(-d^2 / (2 ell^2)) is 2^(-d^2); kernel values are fixed-point        *)
(* numbers with unit One.                                                  *)
One == 16

MaxCoord == 1

(* The caps of the two sampling sites, scaled: the code only compares a    *)
(* size with its cap and keeps the first cap entries of a permutation, so  *)
(* the caps (3500 and 5000 points) are explored at sizes that the point    *)
(* sets below exceed by one.                                               *)
samp_pt == 2
samp_num == 2

Max(a, b) == IF a >= b THEN a ELSE b
Min(a, b) == IF a <= b THEN a ELSE b

MaxPts == Max(samp_pt, samp_num) + 1

(* A point: a position on the optical axis and a grey colour; points at    *)
(* even depth are dark, points at odd depth are bright.                    *)
Points ==
    {[xyz |-> <<0, 0, z>>, rgb |-> <<z % 2, z % 2, z % 2>>] : z \in 0..MaxCoord}

PointSets == UNION {[1..n -> Points] : n \in 0..MaxPts}

(* The pairs explored: a set with itself, and two sets of bounded total    *)
(* size (an oversized set next to a single point, two sets within the cap).*)
PointPairs ==
    {pq \in PointSets \X PointSets :
        pq[1] = pq[2] \/ Len(pq[1]) + Len(pq[2]) <= MaxPts + 1}

(* rgb_to_hsv on a grey colour: no hue, no saturation, value = the level.  *)
rgb_to_hsv(rgb) == <<0, 0, rgb[3]>>

SqNorm(u, v) ==
    (u[1] - v[1]) * (u[1] - v[1]) + (u[2] - v[2]) * (u[2] - v[2])
        + (u[3] - v[3]) * (u[3] - v[3])

(* exp(-d2 / (2 ell^2)) in the units above.                                *)
Kernel(d2) == One \div (2 ^ d2)

(* kern_mat(vec_i, vec_j, dist_coef): the matrix of kernel values.         *)
kern_mat(vec_i, vec_j) ==
    [a \in 1..Len(vec_i), b \in 1..Len(vec_j) |-> Kernel(SqNorm(vec_i[a], vec_j[b]))]

list_of_ij == {<<0, 0>>, <<1, 1>>, <<0, 1>>}

(* cvo_gramian with normalize_mode "ori".                                  *)
cvo_gramian(vectors) ==
    [ij \in list_of_ij |-> kern_mat(vectors[ij[1]], vectors[ij[2]])]

RECURSIVE SumTo(_, _)
SumTo(f, n) == IF n = 0 THEN 0 ELSE f[n] + SumTo(f, n - 1)

(* inner_prod_from_gramian: the sum of the elementwise product of the hsv  *)
(* and the xyz Gramian.                                                    *)
inner_prod_from_gramian(gramians, len) ==
    LET inner_prod(ij) ==
            LET n == len[ij[1]]
                m == len[ij[2]]
                gram_hsv == gramians.hsv[ij]
                gram_xyz == gramians.xyz[ij]
                inner_p == [a \in 1..n, b \in 1..m |->
                               (gram_hsv[a, b] * gram_xyz[a, b]) \div One]
            IN  SumTo([a \in 1..n |-> SumTo([b \in 1..m |-> inner_p[a, b]], m)], n)
    IN  (<<0, 0>> :> inner_prod(<<0, 0>>)) @@ (<<1, 1>> :> inner_prod(<<1, 1>>))
            @@ (<<0, 1>> :> inner_prod(<<0, 1>>))

RECURSIVE SqrtBetween(_, _, _)
SqrtBetween(n, lo, hi) ==
    IF lo >= hi THEN lo
    ELSE LET mid == (lo + hi + 1) \div 2
         IN  IF mid * mid <= n THEN SqrtBetween(n, mid, hi)
             ELSE SqrtBetween(n, lo, mid - 1)

Sqrt(n) == SqrtBetween(n, 0, n)

(* 1 - inp / sqrt(inp_ii * inp_jj) as floating point computes it: 0/0 is   *)
(* nan, x/0 is inf.                                                        *)
CosSimilarity(inp, inp_ii, inp_jj) ==
    IF inp_ii * inp_jj = 0
    THEN [kind |-> IF inp = 0 THEN "nan" ELSE "-inf", value |-> 0]
    ELSE [kind |-> "finite",
          value |-> One - (inp * One) \div Sqrt(inp_ii * inp_jj)]

Finite(x) == [kind |-> "finite", value |-> x]

loss_from_inner_prod(inner_prods) ==
    [f1_f2_dist |-> inner_prods[<<0, 0>>] + inner_prods[<<1, 1>>]
                        - 2 * inner_prods[<<0, 1>>],
     cos_similarity |-> CosSimilarity(inner_prods[<<0, 1>>], inner_prods[<<0, 0>>],
                                      inner_prods[<<1, 1>>])]

(* compute_cvo_loss: hsv from rgb, the Gramians of hsv and xyz, the inner  *)
(* products, the two losses and -inner_prods[(0,1)].                       *)
compute_cvo_loss(v) ==
    LET xyz == [k \in 0..1 |-> [t \in 1..Len(v[k]) |-> v[k][t].xyz]]
        hsv == [k \in 0..1 |-> [t \in 1..Len(v[k]) |-> rgb_to_hsv(v[k][t].rgb)]]
        gramians == [hsv |-> cvo_gramian(hsv), xyz |-> cvo_gramian(xyz)]
        inner_prods == inner_prod_from_gramian(gramians, [k \in 0..1 |-> Len(v[k])])
        loss_pair == loss_from_inner_prod(inner_prods)
    IN  [f1_f2_dist |-> loss_pair.f1_f2_dist,
         cos_similarity |-> loss_pair.cos_similarity,
         inner_prod |-> 0 - inner_prods[<<0, 1>>]]

(* torch.randint(1, n+1, (n,)): indices drawn with replacement.            *)
randint(n) == [1..n -> 1..n]

(* torch.randperm(n): the permutations of the n indices.                   *)
randperm(n) == {perm \in [1..n -> 1..n] : \A a, b \in 1..n : perm[a] = perm[b] => a = b}

(* One side of the sampling: a set larger than the cap is indexed by the   *)
(* first cap entries of a permutation, any other set is used whole.        *)
SampleIndices(n, cap) ==
    IF n > cap THEN {SubSeq(perm, 1, cap) : perm \in randperm(n)} ELSE {<<>>}

Sampled(points, idx, cap) ==
    IF Len(points) > cap THEN [t \in 1..Len(idx) |-> points[idx[t]]] ELSE points

Cap(c) == IF c = "compute_losses" THEN samp_pt ELSE samp_num

(* The training and construction variables while a loss is computed.       *)
IdleTrainer ==
    /\ opt \in CtorOptions
    /\ InitTrainer
    /\ cfg = DefaultConfig
    /\ built = AllComponents(DefaultConfig)
    /\ models = FreshModels(DefaultConfig)
    /\ disk = NoDisk
    /\ err = ""

InitCvo ==
    /\ IdleTrainer
    /\ IdleDense
    /\ IdleRest
    /\ cvo_pc = "points"
    /\ caller \in {"compute_losses", "calc_cvo_pose_loss"}
    /\ \E pq \in PointPairs : pts = [k \in 0..1 |-> pq[k + 1]]
    /\ samp_idx = <<>>
    /\ vector_to_cvo = <<>>
    /\ cvo_loss = <<>>

(* compute_losses, per batch entry: idx_gt and idx_est are two independent *)
(* randperm draws, one per side.                                           *)
SampleSparse ==
    /\ cvo_pc = "points"
    /\ caller = "compute_losses"
    /\ LET gt_choices == SampleIndices(Len(pts[0]), samp_pt)
           est_choices == SampleIndices(Len(pts[1]), samp_pt)
       IN  \E idx_gt \in gt_choices, idx_est \in est_choices :
              /\ samp_idx' = [k \in 0..1 |-> IF k = 0 THEN idx_gt ELSE idx_est]
              /\ vector_to_cvo' = [k \in 0..1 |->
                     Sampled(pts[k], IF k = 0 THEN idx_gt ELSE idx_est, samp_pt)]
    /\ cvo_pc' = "sampled"
    /\ UNCHANGED <<tvars, cvars, nvars, dvars, caller, pts, cvo_loss>>

(* calc_cvo_pose_loss: for k in range(2), a fresh randperm per side.       *)
SamplePose ==
    /\ cvo_pc = "points"
    /\ caller = "calc_cvo_pose_loss"
    /\ LET choices == [k \in 0..1 |-> SampleIndices(Len(pts[k]), samp_num)]
       IN  \E idx0 \in choices[0], idx1 \in choices[1] :
              /\ samp_idx' = [k \in 0..1 |-> IF k = 0 THEN idx0 ELSE idx1]
              /\ vector_to_cvo' = [k \in 0..1 |->
                     Sampled(pts[k], IF k = 0 THEN idx0 ELSE idx1, samp_num)]
    /\ cvo_pc' = "sampled"
    /\ UNCHANGED <<tvars, cvars, nvars, dvars, caller, pts, cvo_loss>>

ComputeCvoLoss ==
    /\ cvo_pc = "sampled"
    /\ cvo_loss' = compute_cvo_loss(vector_to_cvo)
    /\ cvo_pc' = "done"
    /\ UNCHANGED <<tvars, cvars, nvars, dvars, caller, pts, samp_idx, vector_to_cvo>>

NextCvo ==
    \/ SampleSparse
    \/ SamplePose
    \/ ComputeCvoLoss

SpecCvo == InitCvo /\ [][NextCvo]_vars

-----------------------------------------------------------------------------
(* C8: the CVO loss of a (non-empty) point set paired with itself is zero, *)
(* f_dist = 0 and cos_sim = 0, whatever the size of the set (sparse path). *)
C8_IdentityPairGivesZero ==
    (cvo_pc = "done" /\ pts[0] = pts[1] /\ Len(pts[0]) > 0)
        => /\ cvo_loss.f1_f2_dist = 0
           /\ cvo_loss.cos_similarity = Finite(0)

(* C10: a side of at most cap points is handed on whole and in its order;  *)
(* a larger side is reduced to exactly cap distinct points of its own; the *)
(* sampling step is always possible.                                       *)
C10_SamplingCap ==
    /\ cvo_pc = "points" => ENABLED (SampleSparse \/ SamplePose)
    /\ cvo_pc \in {"sampled", "done"} =>
         \A k \in 0..1 :
            IF Len(pts[k]) <= Cap(caller)
            THEN vector_to_cvo[k] = pts[k] /\ samp_idx[k] = <<>>
            ELSE /\ Len(vector_to_cvo[k]) = Cap(caller)
                 /\ Len(samp_idx[k]) = Cap(caller)
                 /\ \A a \in 1..Cap(caller) :
                       /\ samp_idx[k][a] \in 1..Len(pts[k])
                       /\ vector_to_cvo[k][a] = pts[k][samp_idx[k][a]]
                 /\ \A a, b \in 1..Cap(caller) :
                       samp_idx[k][a] = samp_idx[k][b] => a = b

(* calc_cvo_pose_loss reduced an oversized side and kept a small one, and  *)
(* the loss was computed from the result.                                  *)
C10_Witness ==
    /\ cvo_pc = "done"
    /\ caller = "calc_cvo_pose_loss"
    /\ Len(pts[0]) = samp_num + 1
    /\ Len(vector_to_cvo[0]) = samp_num
    /\ Len(pts[1]) = 1
    /\ vector_to_cvo[1] = pts[1]
    /\ pts[0][1] # pts[0][3]

-----------------------------------------------------------------------------
(* The dense CVO loss: every valid pixel of the first image is compared    *)
(* with the valid pixels of the second image inside a window around it.    *)
half_w == 4
half_h == 4

num_off == (2 * half_w + 1) * (2 * half_h + 1)

(* for i in range(-half_h, half_h), for j in range(-half_w, half_w)        *)
OffsetRange(half) == (0 - half)..(half - 1)

Offsets == OffsetRange(half_h) \X OffsetRange(half_w)

OffIdxNarrow(i, j) == (i + half_h) * (2 * half_w - 1) + j + half_w

(* idx: the slot of xyz_pair_off that offset (i, j) writes.                *)
OffIdx(i, j) == (i + half_h) * (2 * half_w + 1) + j + half_w

(* Python's slice start:stop on a dimension of length n.                   *)
SliceBound(k, n) == IF k < 0 THEN Max(k + n, 0) ELSE Min(k, n)

InSlice(r, start, stop, n) == SliceBound(start, n) <= r /\ r < SliceBound(stop, n)

(* The destination region of offset (i, j):                                *)
(* rows off_h0_start : height+off_h0_end, columns likewise.                *)
InDest(p, i, j, height, width) ==
    /\ InSlice(p[1], Max(0, 0 - i), height + Min(0, 0 - i), height)
    /\ InSlice(p[2], Max(0, 0 - j), width + Min(0, 0 - j), width)

(* Loop order of the offsets: o is written no later than o2.               *)
NotLater(o, o2) == o[1] < o2[1] \/ (o[1] = o2[1] /\ o[2] <= o2[2])

(* Offset o wrote its slot at pixel p and a later offset wrote the same     *)
(* slot there again.                                                       *)
Overwritten(p, o, height, width) ==
    \E o2 \in Offsets :
        /\ InDest(p, o2[1], o2[2], height, width)
        /\ OffIdx(o2[1], o2[2]) = OffIdx(o[1], o[2])
        /\ ~NotLater(o2, o)

(* The offsets whose write is what their slot holds at pixel p when the    *)
(* loops end and whose source pixel is valid in mask: the slots where      *)
(* mask_pair_off is True at p.  The destination pixel p of offset (i, j)   *)
(* holds the source pixel p + (i, j) of the second image (the source       *)
(* region off_h1_start : height+off_h1_end is the destination shifted by   *)
(* i, j).                                                                  *)
ValidOffsets(p, mask1, height, width) ==
    {o \in Offsets :
        /\ <<p[1] + o[1], p[2] + o[2]>> \in mask1
        /\ InDest(p, o[1], o[2], height, width)
        /\ ~Overwritten(p, o, height, width)}

(* The slots idx at which mask_pair_off is True at pixel p: False as       *)
(* allocated, then what the last write to the slot at p stored there.      *)
mask_pair_off(p, mask1, height, width) ==
    {OffIdx(o[1], o[2]) : o \in ValidOffsets(p, mask1, height, width)}

RECURSIVE SumSet(_, _)
SumSet(S, f) ==
    IF S = {} THEN 0
    ELSE LET x == CHOOSE y \in S : TRUE IN f[x] + SumSet(S \ {x}, f)

(* The pairs <<p, q>> that enter the sum: p valid in mask_pair[0], q the   *)
(* pixel a slot holds at p, valid in mask_pair[1].                         *)
ComparedPairs(mask_pair, height, width) ==
    UNION {{<<p, <<p[1] + o[1], p[2] + o[2]>>>> :
               o \in ValidOffsets(p, mask_pair[1], height, width)} :
           p \in mask_pair[0]}

(* calc_inp_from_dense: the masked sum of the products of the xyz and hsv  *)
(* kernels (image sides of at least half_h, half_w: every slice pair then  *)
(* has equal shapes).                                                      *)
calc_inp_from_dense(xyz_pair, mask_pair, hsv_pair, height, width) ==
    LET pairs == ComparedPairs(mask_pair, height, width)
        diff == [pq \in pairs |->
                    (Kernel(SqNorm(xyz_pair[0][pq[1]], xyz_pair[1][pq[2]]))
                       * Kernel(SqNorm(hsv_pair[0][pq[1]], hsv_pair[1][pq[2]]))) \div One]
    IN  SumSet(pairs, diff)

Pixels(height, width) == (0..(height - 1)) \X (0..(width - 1))

(* The images explored: the coarsest scale of a 32-divisible side is 4.    *)
ImageSizes == {<<half_h, half_w>>, <<half_h + 1, half_w>>, <<half_h, half_w + 1>>}

MaxValid == 1

RECURSIVE SetsUpTo(_, _)
SetsUpTo(S, n) ==
    IF n = 0 THEN {{}}
    ELSE LET smaller == SetsUpTo(S, n - 1)
         IN  smaller \cup {m \cup {x} : m \in smaller, x \in S}

(* Image k: a plane at depth[k] in front of the camera, carrying a fixed   *)
(* checkerboard texture.                                                   *)
Xyz(k, height, width) == [q \in Pixels(height, width) |-> <<0, 0, depth[k]>>]

Texture(q) == LET g == (q[1] + q[2]) % 2 IN <<g, g, g>>

Hsv(height, width) == [q \in Pixels(height, width) |-> rgb_to_hsv(Texture(q))]

(* innerps[(id_pair, scale, gt_pair)] for the frames i, j of id_pair.      *)
InnerpDense(i, j) ==
    calc_inp_from_dense([k \in 0..1 |-> Xyz(IF k = 0 THEN i ELSE j, size[1], size[2])],
                        [k \in 0..1 |-> mask[IF k = 0 THEN i ELSE j]],
                        [k \in 0..1 |-> Hsv(size[1], size[2])],
                        size[1], size[2])

(* The id_pairs of gen_innerp_dense over the frames 0 and 1 (the pairs     *)
(* with frame -1 repeat those with frame 1).                               *)
id_pairs == {<<0, 0>>, <<1, 1>>, <<0, 1>>}

(* The depths of the two planes: equal, or one kernel length apart.       *)
PlaneDepths == {0, 1}

InitDense ==
    /\ IdleTrainer
    /\ IdleSparse
    /\ IdleRest
    /\ dense_pc = "images"
    /\ size \in ImageSizes
    /\ depth \in [0..1 -> PlaneDepths]
    /\ depth[0] = 0
    /\ \E m0 \in SetsUpTo(Pixels(size[1], size[2]), 1),
          m1 \in SetsUpTo(Pixels(size[1], size[2]), MaxValid) :
          mask = (0 :> m0 @@ 1 :> m1)
    /\ innerps = <<>>
    /\ dense_loss = <<>>

GenInnerpDense ==
    /\ dense_pc = "images"
    /\ innerps' = [id_pair \in id_pairs |-> InnerpDense(id_pair[1], id_pair[2])]
    /\ dense_pc' = "innerps"
    /\ UNCHANGED <<tvars, cvars, nvars, xvars, size, depth, mask, dense_loss>>

(* gen_cvo_loss_dense(innerps, id_pair, scale, gt_pair)                    *)
gen_cvo_loss_dense(inps, id_pair) ==
    LET i == id_pair[1]
        j == id_pair[2]
        inp == inps[id_pair]
    IN  IF i = j
        THEN [id_pair |-> id_pair, inp |-> inp, f_dist |-> 0, cos_sim |-> Finite(0)]
        ELSE LET inp_ii == inps[<<i, i>>]
                 inp_jj == inps[<<j, j>>]
             IN  [id_pair |-> id_pair, inp |-> inp,
                  f_dist |-> inp_ii + inp_jj - 2 * inp,
                  cos_sim |-> CosSimilarity(inp, inp_ii, inp_jj)]

GenCvoLossDense ==
    /\ dense_pc = "innerps"
    /\ \E frame_id \in 0..1 : dense_loss' = gen_cvo_loss_dense(innerps, <<0, frame_id>>)
    /\ dense_pc' = "done"
    /\ UNCHANGED <<tvars, cvars, nvars, xvars, size, depth, mask, innerps>>

NextDense ==
    \/ GenInnerpDense
    \/ GenCvoLossDense

SpecDense == InitDense /\ [][NextDense]_vars

-----------------------------------------------------------------------------
(* C9: the dense inner product does not depend on the order of the two     *)
(* images: calc_inp_from_dense of (A, B) equals that of (B, A).            *)
C9_DenseInnerProductSymmetric ==
    dense_pc \in {"innerps", "done"} => innerps[<<0, 1>>] = InnerpDense(1, 0)

-----------------------------------------------------------------------------
(* compute_losses on one batch, seen at one pixel.  Loss values are        *)
(* multiples of LossUnit / 12; the tie-breaking noise is one such step.    *)
MaxScale == 1

LossUnit == 12

LossLevels == {0, LossUnit}

Noise == {-1, 0, 1}

(* frame_ids[1:]: one neighbour (stereo or a single frame) or two.         *)
NeighbourCounts == {1, 2}

(* opt.scales: distinct scales in increasing order.                        *)
ScaleLists ==
    {sc \in UNION {[1..n -> 0..MaxScale] : n \in 1..(MaxScale + 1)} :
        \A a, b \in DOMAIN sc : a < b => sc[a] < sc[b]}

(* The options compute_losses reads; __init__ has asserted that            *)
(* predictive_mask comes with disable_automasking.                         *)
LossOptions ==
    {o \in [scales : ScaleLists, neighbours : NeighbourCounts,
            disable_automasking : BOOLEAN, predictive_mask : BOOLEAN,
            avg_reprojection : BOOLEAN, v1_multiscale : BOOLEAN] :
        o.predictive_mask => o.disable_automasking}

RECURSIVE SumSeq(_)
SumSeq(xs) == IF xs = <<>> THEN 0 ELSE Head(xs) + SumSeq(Tail(xs))

(* tensor.mean(1, keepdim=True): one channel holding the mean.             *)
MeanChannels(xs) == <<SumSeq(xs) \div Len(xs)>>

RECURSIVE MaxChannels(_)
MaxChannels(xs) ==
    IF Len(xs) = 1 THEN xs[1] ELSE Max(Head(xs), MaxChannels(Tail(xs)))

(* torch.min(combined, dim=1)                                              *)
RECURSIVE MinChannels(_)
MinChannels(xs) ==
    IF Len(xs) = 1 THEN xs[1] ELSE Min(Head(xs), MinChannels(Tail(xs)))

(* reprojection_losses *= mask, the predicted mask being m / 2.            *)
MaskLevels == {1, 2}

Masked(xs, m) == [t \in DOMAIN xs |-> (xs[t] * m) \div 2]

(* 0.2 * BCELoss(mask, ones) = -0.2 ln(mask): 0 for mask 1, 0.14 for 1/2.  *)
WeightingLoss(m) == IF m = 2 THEN 0 ELSE 2

IdentityOnly(identity_reprojection_loss, reprojection_loss) ==
    identity_reprojection_loss

(* torch.cat((identity_reprojection_loss, reprojection_loss), dim=1)       *)
Combined(identity_reprojection_loss, reprojection_loss) ==
    identity_reprojection_loss \o reprojection_loss

(* if combined.shape[1] == 1: combined, else torch.min(combined, dim=1)    *)
Selected(combined) ==
    IF Len(combined) = 1 THEN combined[1] ELSE MinChannels(combined)

(* The value picked at the pixel when only the warped images are used.     *)
PlainToOptimise(reprojection_losses, o) ==
    Selected(IF o.avg_reprojection THEN MeanChannels(reprojection_losses)
                                   ELSE reprojection_losses)

(* The selection of one scale: the identity losses (mean or all), the      *)
(* noise added to them, then the minimum over both kinds.                  *)
ToOptimise(reprojection_losses, identity_reprojection_losses, randn, o) ==
    LET reprojection_loss ==
            IF o.avg_reprojection THEN MeanChannels(reprojection_losses)
                                  ELSE reprojection_losses
        identity_reprojection_loss ==
            IF o.avg_reprojection THEN MeanChannels(identity_reprojection_losses)
                                  ELSE identity_reprojection_losses
        noisy == [t \in DOMAIN identity_reprojection_loss |->
                     identity_reprojection_loss[t] + randn[t]]
    IN  IF ~o.disable_automasking
        THEN Selected(Combined(noisy, reprojection_loss))
        ELSE Selected(reprojection_loss)

DictSet(d, k, v) == [x \in DOMAIN d \cup {k} |-> IF x = k THEN v ELSE d[x]]

EmptyDict == [x \in {} |-> 0]

NumScalesPlusOne == Len(l_opt.scales) + 1

(* self.num_scales = len(self.opt.scales)                                  *)
num_scales == Len(l_opt.scales)

InitLosses ==
    /\ IdleTrainer
    /\ IdleSparse
    /\ IdleDense
    /\ IdleExtra
    /\ l_pc = "scales"
    /\ l_opt \in LossOptions
    /\ l_i = 0
    /\ losses = EmptyDict
    /\ total_loss = 0
    /\ l_last = <<>>

(* One iteration of "for scale in self.opt.scales".                        *)
ScaleLoss ==
    /\ l_pc = "scales"
    /\ l_i < Len(l_opt.scales)
    /\ LET scale == l_opt.scales[l_i + 1]
           source_scale == IF l_opt.v1_multiscale THEN scale ELSE 0
           n == l_opt.neighbours
       IN  \E warped \in [1..n -> LossLevels], identity \in [1..n -> LossLevels],
              randn \in [1..n -> Noise], m \in MaskLevels, smooth_loss \in LossLevels :
              LET use_mask == l_opt.disable_automasking /\ l_opt.predictive_mask
                  reprojection_losses == IF use_mask THEN Masked(warped, m) ELSE warped
                  weighting_loss == IF use_mask THEN WeightingLoss(m) ELSE 0
                  to_optimise == ToOptimise(reprojection_losses, identity, randn, l_opt)
                  loss == weighting_loss + to_optimise + smooth_loss \div (2 ^ scale)
              IN  /\ use_mask \/ m = 2
                  /\ l_opt.disable_automasking => (identity = [t \in 1..n |-> 0]
                                                   /\ randn = [t \in 1..n |-> 0])
                  /\ total_loss' = total_loss + loss
                  /\ losses' = DictSet(losses, <<"loss", scale>>, loss)
                  /\ l_last' = [scale |-> scale, source_scale |-> source_scale,
                                reprojection_losses |-> reprojection_losses,
                                to_optimise |-> to_optimise, loss |-> loss]
    /\ l_i' = l_i + 1
    /\ UNCHANGED <<tvars, cvars, xvars, dvars, evars, l_pc, l_opt>>

(* total_loss /= self.num_scales; losses["loss"] = total_loss (the key of  *)
(* the total is written <<"loss", -1>>, that of a scale <<"loss", scale>>).*)
TotalLoss ==
    /\ l_pc = "scales"
    /\ l_i = Len(l_opt.scales)
    /\ total_loss' = total_loss \div num_scales
    /\ losses' = DictSet(losses, <<"loss", -1>>, total_loss')
    /\ l_pc' = "done"
    /\ UNCHANGED <<tvars, cvars, xvars, dvars, evars, l_opt, l_i, l_last>>

NextLosses ==
    \/ ScaleLoss
    \/ TotalLoss

SpecLosses == InitLosses /\ [][NextLosses]_vars

-----------------------------------------------------------------------------
(* C11: with automasking enabled, the value selected for optimisation at a *)
(* pixel is at most the value selected from the warped reprojection losses *)
(* alone, for one or two neighbours and both avg_reprojection settings.    *)
C11_AutomaskingMonotone ==
    (l_last # <<>> /\ ~l_opt.disable_automasking)
        => l_last.to_optimise <= PlainToOptimise(l_last.reprojection_losses, l_opt)

(* The identity alternative won: the selected value is below the plain one *)
(* with two neighbours and per-frame minimum.                              *)
C11_Witness ==
    /\ l_last # <<>>
    /\ ~l_opt.disable_automasking
    /\ ~l_opt.avg_reprojection
    /\ l_opt.neighbours = 2
    /\ l_last.to_optimise < PlainToOptimise(l_last.reprojection_losses, l_opt)

(* C12: losses["loss"] is the sum over the configured scales of            *)
(* losses["loss/<scale>"] divided by the number of scales, and the dict    *)
(* holds one per-scale loss for every configured scale.                    *)
C12_TotalIsMeanOfScales ==
    l_pc = "done" =>
        /\ \A t \in DOMAIN l_opt.scales : <<"loss", l_opt.scales[t]>> \in DOMAIN losses
        /\ losses[<<"loss", -1>>] =
              SumSeq([t \in DOMAIN l_opt.scales |-> losses[<<"loss", l_opt.scales[t]>>]])
                  \div Len(l_opt.scales)

(* Two scales with different per-scale losses were averaged.               *)
C12_Witness ==
    /\ l_pc = "done"
    /\ Len(l_opt.scales) = 2
    /\ losses[<<"loss", 0>>] # losses[<<"loss", 1>>]
    /\ losses[<<"loss", -1>>] > 0

-----------------------------------------------------------------------------
Abs(x) == IF x < 0 THEN 0 - x ELSE x

(* The kernel product of pixel p of image 0 and pixel q of image 1.        *)
PairKernel(pq) ==
    (Kernel(SqNorm(<<0, 0, depth[0]>>, <<0, 0, depth[1]>>))
        * Kernel(SqNorm(rgb_to_hsv(Texture(pq[1])), rgb_to_hsv(Texture(pq[2]))))) \div One

(* C13: every valid pixel (r, c) of the first image is compared with       *)
(* exactly the valid pixels (r+i, c+j) of the second image with            *)
(* |i| <= half_h and |j| <= half_w: the full window.                       *)
C13_FullWindow ==
    dense_pc \in {"innerps", "done"} =>
        ComparedPairs(mask, size[1], size[2]) =
            {pq \in mask[0] \X mask[1] :
                /\ Abs(pq[2][1] - pq[1][1]) <= half_h
                /\ Abs(pq[2][2] - pq[1][2]) <= half_w}

(* The pairs the two loops of calc_inp_from_dense reach.                   *)
LoopPairs ==
    {pq \in mask[0] \X mask[1] :
        /\ pq[2][1] - pq[1][1] \in OffsetRange(half_h)
        /\ pq[2][2] - pq[1][2] \in OffsetRange(half_w)}

-----------------------------------------------------------------------------
(* C15: the cosine-similarity loss is finite whenever it is computed, also *)
(* when a self inner product is zero (an image with no valid pixel).       *)
C15_CosSimGuarded ==
    dense_pc = "done" => dense_loss.cos_sim.kind = "finite"

-----------------------------------------------------------------------------
(* process_batch on one batch, followed by the logging branch of           *)
(* run_epoch.  The batch either carries the ground-truth entries the       *)
(* dataset derives from the lidar scan or carries none of them.            *)
MaxDisp == 1

(* Disparity losses are counted in units of 1 / DispUnit.                  *)
DispUnit == 2

BatchPixels == {1, 2}

BatchFrameIds == <<0, 1>>

BatchScales == <<0>>

NaN == [kind |-> "nan", value |-> 0]

(* Floating-point addition: nan is absorbing.                              *)
Add(a, b) ==
    IF a.kind = "finite" /\ b.kind = "finite" THEN Finite(a.value + b.value) ELSE NaN

(* mask = disp_gt > 0; torch.mean(torch.abs(disp[mask] - disp_gt[mask])):  *)
(* the mean of an empty selection is nan.                                  *)
compute_disp_loss(disp, disp_gt) ==
    LET selected == {p \in BatchPixels : disp_gt[p] > 0}
        disp_error == [p \in selected |-> Abs(disp[p] - disp_gt[p])]
    IN  IF selected = {} THEN NaN
        ELSE Finite((DispUnit * SumSet(selected, disp_error)) \div Cardinality(selected))

(* The inner loop of compute_disp_losses over the first n frame ids: the   *)
(* sum starts from 0 at frame_ids[0].                                      *)
RECURSIVE DispLossUpTo(_, _, _)
DispLossUpTo(n, disp, disp_gt) ==
    IF n = 0 THEN Finite(0)
    ELSE Add(DispLossUpTo(n - 1, disp, disp_gt),
             compute_disp_loss(disp, disp_gt[BatchFrameIds[n]]))

compute_disp_losses(inputs) ==
    [t \in 1..Len(BatchScales) |->
        DispLossUpTo(Len(BatchFrameIds), inputs.disp, inputs.disp_gt)]

BatchOptions ==
    {o \in [pose_model_type : {"separate_resnet", "shared"},
            cvo_loss : BOOLEAN, cvo_loss_dense : BOOLEAN, train_flag : BOOLEAN,
            sup_cvo_pose_lidar : BOOLEAN, supervised_by_gt_depth : BOOLEAN] :
        o.cvo_loss_dense => o.cvo_loss}

Frames == {BatchFrameIds[t] : t \in 1..Len(BatchFrameIds)}

Batches ==
    LET disps == {[p \in BatchPixels |-> v] : v \in 0..MaxDisp}
    IN  {[has_gt |-> FALSE, disp |-> d, disp_gt |-> <<>>] : d \in disps}
        \cup {[has_gt |-> TRUE, disp |-> d, disp_gt |-> g] :
                 d \in disps, g \in [Frames -> [BatchPixels -> 0..MaxDisp]]}

NoLosses == [written |-> {}, disp_losses |-> <<>>]

InitBatch ==
    /\ IdleTrainer
    /\ IdleSparse
    /\ IdleDense
    /\ IdleLosses
    /\ IdleFurther
    /\ IdleAlign
    /\ IdleMasks
    /\ IdleScales
    /\ b_pc = "batch"
    /\ b_opt \in BatchOptions
    /\ b_inputs \in Batches
    /\ b_outputs = {}
    /\ b_losses = NoLosses
    /\ b_err = ""

(* process_batch up to the call of generate_images_pred: outputs_others is *)
(* assigned only in the branch of a separate pose encoder.                 *)
Forward ==
    /\ b_pc = "batch"
    /\ b_outputs' = {"disp"} \cup (IF b_opt.pose_model_type = "shared" THEN {}
                                   ELSE {"outputs_others"})
    /\ b_pc' = "forward"
    /\ UNCHANGED <<tvars, cvars, xvars, dvars, beside_b, b_opt, b_inputs, b_losses, b_err>>

(* generate_images_pred(inputs, outputs, outputs_others): with cvo_loss,   *)
(* get_xyz_dense or gen_pcl_wrap_host reads inputs[("depth_gt_scale", 0,   *)
(* scale)].                                                                *)
GenerateImagesPred ==
    /\ b_pc = "forward"
    /\ IF "outputs_others" \notin b_outputs
       THEN /\ b_err' = "UnboundLocalError: outputs_others"
            /\ b_pc' = "error"
            /\ UNCHANGED b_outputs
       ELSE IF b_opt.cvo_loss /\ ~b_inputs.has_gt
       THEN /\ b_err' = "KeyError: depth_gt_scale"
            /\ b_pc' = "error"
            /\ UNCHANGED b_outputs
       ELSE /\ b_outputs' = b_outputs \cup
                   (IF ~b_opt.cvo_loss THEN {}
                    ELSE IF b_opt.cvo_loss_dense THEN {"xyz1_dense_gt"} ELSE {"xyz_gt"})
            /\ b_pc' = "images"
            /\ UNCHANGED b_err
    /\ UNCHANGED <<tvars, cvars, xvars, dvars, beside_b, b_opt, b_inputs, b_losses>>

(* compute_losses: the pose CVO loss, compute_disp_losses (called          *)
(* unconditionally), the zero-initialised sums, the loop over scales.      *)
ComputeLosses ==
    /\ b_pc = "images"
    /\ LET pose_cvo == ~b_opt.train_flag \/ b_opt.sup_cvo_pose_lidar
           gt_cvo == (~b_opt.train_flag \/ b_opt.supervised_by_gt_depth) /\ b_opt.cvo_loss
       IN  IF pose_cvo /\ ~b_opt.cvo_loss_dense /\ "xyz_gt" \notin b_outputs
           THEN /\ b_err' = "KeyError: xyz_gt"
                /\ b_pc' = "error"
                /\ UNCHANGED b_losses
           ELSE IF ~b_inputs.has_gt
           THEN /\ b_err' = "KeyError: depth_gt_scale"
                /\ b_pc' = "error"
                /\ UNCHANGED b_losses
           ELSE /\ b_losses' =
                      [written |-> {"loss", "loss_disp", "loss_cvo/sum", "loss_cos/sum",
                                    "loss_inp/sum"}
                                   \cup (IF pose_cvo THEN {"loss_pose/cos_sum"} ELSE {})
                                   \cup (IF gt_cvo THEN {"loss_cvo/gt"} ELSE {}),
                       disp_losses |-> compute_disp_losses(b_inputs)]
                /\ b_pc' = "losses"
                /\ UNCHANGED b_err
    /\ UNCHANGED <<tvars, cvars, xvars, dvars, beside_b, b_opt, b_inputs, b_outputs>>

(* run_epoch, logging step: if "depth_gt" in inputs: compute_depth_losses. *)
LogStep ==
    /\ b_pc = "losses"
    /\ b_losses' = [b_losses EXCEPT !.written =
                       @ \cup (IF b_inputs.has_gt THEN {"de/abs_rel"} ELSE {})]
    /\ b_pc' = "logged"
    /\ UNCHANGED <<tvars, cvars, xvars, dvars, beside_b, b_opt, b_inputs, b_outputs, b_err>>

NextBatch ==
    \/ Forward
    \/ GenerateImagesPred
    \/ ComputeLosses
    \/ LogStep

SpecBatch == InitBatch /\ [][NextBatch]_vars

-----------------------------------------------------------------------------
(* C16: when a frame's ground-truth disparity map has no positive pixel,   *)
(* its compute_disp_loss term is a defined zero, so the per-scale sum of   *)
(* compute_disp_losses is finite and equals the sum of the other frames.   *)
C16_EmptyDispLossIsZero ==
    (b_pc = "losses"
        /\ \E f \in Frames : \A p \in BatchPixels : b_inputs.disp_gt[f][p] = 0)
    => \A t \in 1..Len(BatchScales) : b_losses.disp_losses[t].kind = "finite"

-----------------------------------------------------------------------------
(* C17: a batch without ground-truth depth entries is processed to the end *)
(* without an exception: the total loss is returned and no term that needs *)
(* the ground truth is written.                                            *)
C17_MissingGtSkipped ==
    (b_pc \in {"error", "losses", "logged"} /\ ~b_inputs.has_gt)
    => /\ b_err = ""
       /\ "loss" \in b_losses.written
       /\ b_losses.written \cap {"loss_disp", "loss_cvo/gt", "de/abs_rel"} = {}

-----------------------------------------------------------------------------
(* get_xyz_aligned(id_pair, xyz1, outputs) on one pair of frame ids.  A    *)
(* point set is one coordinate, the pose T of outputs[("cam_T_cam", 0, x)] *)
(* a translation along it.                                                 *)
MaxFrame == 1

FrameIdRange == (0 - MaxFrame)..MaxFrame

(* "{}".format(n) for a frame id.                                          *)
RECURSIVE Digits(_)
Digits(n) ==
    LET d == <<"0", "1", "2", "3", "4", "5", "6", "7", "8", "9">>
    IN  IF n < 10 THEN <<d[n + 1]>> ELSE Digits(n \div 10) \o <<d[(n % 10) + 1]>>

Format(n) == IF n < 0 THEN <<"-">> \o Digits(0 - n) ELSE Digits(n)

(* The test that reaches the raise: with it forced FALSE, no pair is       *)
(* rejected and (x, 0) is aligned like (0, x).                             *)
NeverRejected(id_pair) == FALSE

Unrecognized(id_pair) ==
    ~(id_pair[1] = id_pair[2]) /\ ~(id_pair[1] = 0 /\ id_pair[2] # 0)

get_xyz_aligned(id_pair, xyz1, T) ==
    IF Unrecognized(id_pair)
    THEN [raised |-> "ValueError",
          message |-> <<"id_pair [">> \o Format(id_pair[1]) \o <<", ">>
                          \o Format(id_pair[2]) \o <<"] not recognized">>,
          xyz_aligned |-> <<>>]
    ELSE [raised |-> "",
          message |-> <<>>,
          xyz_aligned |-> (0 :> (IF id_pair[1] = id_pair[2] THEN xyz1[0] ELSE xyz1[0] + T)
                           @@ 1 :> xyz1[1])]

InitAlign ==
    /\ IdleTrainer
    /\ IdleSparse
    /\ IdleDense
    /\ IdleLosses
    /\ IdleFurther
    /\ IdleBatch
    /\ IdleMasks
    /\ IdleScales
    /\ a_pc = "call"
    /\ a_in \in [id_pair : FrameIdRange \X FrameIdRange,
                 xyz1 : [0..1 -> 0..MaxCoord],
                 T : 1..(MaxCoord + 1)]
    /\ a_out = <<>>

GetXyzAligned ==
    /\ a_pc = "call"
    /\ a_out' = get_xyz_aligned(a_in.id_pair, a_in.xyz1, a_in.T)
    /\ a_pc' = "returned"
    /\ UNCHANGED <<tvars, cvars, xvars, dvars, beside_a, a_in>>

NextAlign == GetXyzAligned

SpecAlign == InitAlign /\ [][NextAlign]_vars

-----------------------------------------------------------------------------
(* C18: get_xyz_aligned returns aligned point sets exactly for the pairs   *)
(* (x, x) and (0, x) with x # 0 (the first set transformed by the pose for *)
(* (0, x), the second set unchanged); for every other pair it raises an    *)
(* error whose message holds both identifiers and returns nothing.         *)
C18_AlignedPairs ==
    a_pc = "returned" =>
        LET i == a_in.id_pair[1]
            j == a_in.id_pair[2]
        IN  IF i = j \/ (i = 0 /\ j # 0)
            THEN /\ a_out.raised = ""
                 /\ a_out.xyz_aligned[0] = (IF i = j THEN a_in.xyz1[0] ELSE a_in.xyz1[0] + a_in.T)
                 /\ a_out.xyz_aligned[1] = a_in.xyz1[1]
            ELSE /\ a_out.raised # ""
                 /\ a_out.xyz_aligned = <<>>
                 /\ \E s, t \in 1..Len(a_out.message) :
                       /\ s + Len(Format(i)) <= t
                       /\ SubSeq(a_out.message, s, s + Len(Format(i)) - 1) = Format(i)
                       /\ SubSeq(a_out.message, t, t + Len(Format(j)) - 1) = Format(j)

(* The pair (1, -1) was rejected with the message naming 1 and -1.         *)
C18_Witness ==
    /\ a_pc = "returned"
    /\ a_in.id_pair = <<1, -1>>
    /\ a_out.raised = "ValueError"
    /\ a_out.message = <<"id_pair [", "1", ", ", "-", "1", "] not recognized">>

-----------------------------------------------------------------------------
(* The validity masks of one frame at one scale: get_depth_related builds  *)
(* them from the projected lidar depth, get_xyz_rgb_pair and               *)
(* gen_pcl_wrap_host hand them to the CVO loss.  The depth map is positive *)
(* everywhere except on one rectangular block of zeros.                    *)
MaskHeight == 4

MaskWidth == 2

MaxFootprint == 2

MaskPixels == Pixels(MaskHeight, MaskWidth)

Block(r1, r2, c1, c2) ==
    {q \in MaskPixels : r1 <= q[1] /\ q[1] <= r2 /\ c1 <= q[2] /\ q[2] <= c2}

DepthMaps ==
    {[q \in MaskPixels |-> IF q \in Block(r1, r2, c1, c2) THEN 0 ELSE 1] :
        r1 \in 0..(MaskHeight - 1), r2 \in 0..(MaskHeight - 1),
        c1 \in 0..(MaskWidth - 1), c2 \in 0..(MaskWidth - 1)}

(* A square footprint of ones with its origin at the centre.               *)
Footprint(side) ==
    {<<r - side \div 2, c - side \div 2>> : r \in 0..(side - 1), c \in 0..(side - 1)}

(* skimage.morphology.binary_closing: a dilation followed by an erosion    *)
(* that takes the pixels outside the image as set.                         *)
binary_dilation(image, footprint) ==
    {q \in MaskPixels : \E s \in footprint : <<q[1] - s[1], q[2] - s[2]>> \in image}

binary_erosion(image, footprint) ==
    {q \in MaskPixels : \A s \in footprint :
        LET n == <<q[1] + s[1], q[2] + s[2]>> IN n \in MaskPixels => n \in image}

binary_closing(image, footprint) ==
    binary_erosion(binary_dilation(image, footprint), footprint)

(* mask = depth_gt.copy(); mask[int(new_h/2):] = 1; binary_closing(mask)   *)
depth_mask(depth_gt, footprint) ==
    binary_closing({q \in MaskPixels : depth_gt[q] # 0 \/ q[1] >= MaskHeight \div 2},
                   footprint)

(* inputs[("depth_gt_scale", i, j)] > 0                                    *)
depth_mask_gt(depth_gt) == {q \in MaskPixels : depth_gt[q] > 0}

InitMasks ==
    /\ IdleTrainer
    /\ IdleSparse
    /\ IdleDense
    /\ IdleLosses
    /\ IdleFurther
    /\ IdleBatch
    /\ IdleAlign
    /\ IdleScales
    /\ m_pc = "sample"
    /\ m_in \in [depth_gt : DepthMaps, side : 1..MaxFootprint]
    /\ m_inputs = <<>>
    /\ m_used = {}

GetDepthRelated ==
    /\ m_pc = "sample"
    /\ m_inputs' = [depth_mask |-> depth_mask(m_in.depth_gt, Footprint(m_in.side)),
                    depth_mask_gt |-> depth_mask_gt(m_in.depth_gt)]
    /\ m_pc' = "inputs"
    /\ UNCHANGED <<tvars, cvars, xvars, dvars, beside_m, m_in, m_used>>

(* get_xyz_rgb_pair(frame_id, scale, inputs, outputs, gt): depth_mask_gt   *)
(* for the ground-truth side, depth_mask for the predicted side.           *)
GetXyzRgbPair ==
    /\ m_pc = "inputs"
    /\ \E gt \in BOOLEAN :
          m_used' = IF gt THEN m_inputs.depth_mask_gt ELSE m_inputs.depth_mask
    /\ m_pc' = "dense"
    /\ UNCHANGED <<tvars, cvars, xvars, dvars, beside_m, m_in, m_inputs>>

(* gen_pcl_wrap_host, part 2: the predicted points of the host frame are   *)
(* selected with inputs[("depth_mask", 0, scale)].                         *)
GenPclWrapHost ==
    /\ m_pc = "inputs"
    /\ m_used' = m_inputs.depth_mask
    /\ m_pc' = "sparse"
    /\ UNCHANGED <<tvars, cvars, xvars, dvars, beside_m, m_in, m_inputs>>

NextMasks ==
    \/ GetDepthRelated
    \/ GetXyzRgbPair
    \/ GenPclWrapHost

SpecMasks == InitMasks /\ [][NextMasks]_vars

-----------------------------------------------------------------------------
(* C19: the mask a CVO point set is selected with, on the ground-truth     *)
(* side and on the predicted side, in dense and in sparse mode, holds      *)
(* exactly the pixels outside the zero block of the depth map.             *)
C19_MaskExcludesZeroBlock ==
    m_pc \in {"dense", "sparse"} => m_used = {q \in MaskPixels : m_in.depth_gt[q] # 0}

-----------------------------------------------------------------------------
(* The scales of generate_images_pred and compute_losses.  A tensor is     *)
(* represented by the scale of its spatial size: 0 is height x width,      *)
(* s is height / 2^s x width / 2^s.  inputs[(name, frame_id, s)], K and    *)
(* inv_K of scale s and the geometry module of index s are at scale s.     *)
Neighbours == <<-1, 1>>

ScaleOptions ==
    {o \in [scales : ScaleLists, v1_multiscale : BOOLEAN,
            cvo : {"off", "sparse", "dense"},
            disable_automasking : BOOLEAN, predictive_mask : BOOLEAN] :
        o.predictive_mask => o.disable_automasking}

(* The same tensor, not resized.                                           *)
NoInterpolate(tensor) == tensor

(* F.interpolate(tensor, [self.opt.height, self.opt.width])                *)
interpolate(tensor) == 0

from_disp_to_depth(disp, scale, force_multiscale, o) ==
    IF o.v1_multiscale \/ force_multiscale
    THEN [depth |-> disp, source_scale |-> scale]
    ELSE [depth |-> interpolate(disp), source_scale |-> 0]

(* One call: the function, the scale of the module, intrinsics or target   *)
(* it is indexed with, and the scales of its tensor operands.              *)
Use(fn, scale, index, operands) ==
    [fn |-> fn, scale |-> scale, index |-> index, operands |-> operands]

(* F.grid_sample(image, grid): the result has the size of the grid.        *)
grid_sample(image, grid) == grid

(* gen_pcl_wrap_host(inputs, outputs, scale)                               *)
gen_pcl_wrap_host(outs, scale) ==
    {Use("backproject_depth gt", scale, scale, {scale, scale}),
     Use("rgb_gt", scale, scale, {scale}),
     Use("backproject_depth host", scale, scale, {outs[<<"depth_wrap", 0, scale>>], scale}),
     Use("xyz_is", scale, scale, {scale, scale})}

(* get_xyz_dense(frame_id, scale, inputs, outputs)                         *)
get_xyz_dense(outs, frame_id, scale) ==
    {Use("backproject_depth gt", scale, scale, {scale, scale}),
     Use("backproject_depth pred", scale, scale,
         {outs[<<IF frame_id = 0 THEN "depth_wrap" ELSE "depth", frame_id, scale>>], scale})}

(* gen_pcl_wrap_other(inputs, outputs, scale, frame_id, T_inv, masks)      *)
gen_pcl_wrap_other(outs, scale, frame_id) ==
    {Use("backproject_depth wrap", scale, scale,
         {outs[<<"depth_wrap", frame_id, scale>>], outs[<<"uv_wrap", frame_id, scale>>], scale}),
     Use("xyz_is", scale, scale, {scale, outs[<<"color_wrap", frame_id, scale>>]}),
     Use("backproject_depth gt", scale, scale, {scale, scale}),
     Use("rgb_gt", scale, scale, {scale})}

InitScales ==
    /\ IdleTrainer
    /\ IdleSparse
    /\ IdleDense
    /\ IdleLosses
    /\ IdleFurther
    /\ IdleBatch
    /\ IdleAlign
    /\ IdleMasks
    /\ s_pc = "host"
    /\ s_opt \in ScaleOptions
    /\ s_i = 0
    /\ s_f = 0
    /\ s_outputs = EmptyDict
    /\ s_uses = {}

(* generate_images_pred, one scale, up to the loop over the neighbours.    *)
GenerateHost ==
    /\ s_pc = "host"
    /\ s_i < Len(s_opt.scales)
    /\ LET scale == s_opt.scales[s_i + 1]
           disp == scale
           d == from_disp_to_depth(disp, scale, FALSE, s_opt)
           cam_points == d.depth
           depth_curscale == from_disp_to_depth(disp, scale, TRUE, s_opt).depth
           outs1 == DictSet(DictSet(s_outputs, <<"depth", 0, scale>>, d.depth),
                            <<"cam_points", 0, scale>>, cam_points)
           outs2 == DictSet(DictSet(outs1, <<"depth_wrap", 0, scale>>, depth_curscale),
                            <<"cam_points_curscale", 0, scale>>, depth_curscale)
           photo == {Use("backproject_depth", scale, d.source_scale,
                         {d.depth, d.source_scale})}
           cvo == {Use("backproject_depth curscale", scale, scale, {depth_curscale, scale})}
       IN  IF s_opt.cvo = "off"
           THEN /\ s_outputs' = outs1
                /\ s_uses' = s_uses \cup photo
           ELSE /\ s_outputs' = outs2
                /\ s_uses' = s_uses \cup photo \cup cvo
                      \cup (IF s_opt.cvo = "dense" THEN get_xyz_dense(outs2, 0, scale)
                            ELSE gen_pcl_wrap_host(outs2, scale))
    /\ s_f' = 0
    /\ s_pc' = "other"
    /\ UNCHANGED <<tvars, cvars, xvars, dvars, beside_s, s_opt, s_i>>

(* generate_images_pred, one neighbouring frame of one scale.              *)
GenerateOther ==
    /\ s_pc = "other"
    /\ s_f < Len(Neighbours)
    /\ LET scale == s_opt.scales[s_i + 1]
           frame_id == Neighbours[s_f + 1]
           source_scale == from_disp_to_depth(scale, scale, FALSE, s_opt).source_scale
           pix_coords == s_outputs[<<"cam_points", 0, scale>>]
           color == grid_sample(source_scale, pix_coords)
           outs1 == DictSet(DictSet(s_outputs, <<"sample", frame_id, scale>>, pix_coords),
                            <<"color", frame_id, scale>>, color)
           photo == {Use("project_3d", scale, source_scale,
                         {s_outputs[<<"cam_points", 0, scale>>], source_scale}),
                     Use("grid_sample color", scale, source_scale, {source_scale, pix_coords})}
           depth_curscale == from_disp_to_depth(scale, scale, TRUE, s_opt).depth
           outs2 == DictSet(outs1, <<"depth", frame_id, scale>>, depth_curscale)
           pix_coords_curscale == s_outputs[<<"cam_points_curscale", 0, scale>>]
           outs3 == DictSet(DictSet(DictSet(DictSet(outs2,
                        <<"sample_wrap", frame_id, scale>>, pix_coords_curscale),
                        <<"depth_wrap", frame_id, scale>>,
                            grid_sample(depth_curscale, pix_coords_curscale)),
                        <<"color_wrap", frame_id, scale>>,
                            grid_sample(scale, pix_coords_curscale)),
                        <<"uv_wrap", frame_id, scale>>,
                            grid_sample(scale, pix_coords_curscale))
           sparse == {Use("project_3d curscale", scale, scale, {pix_coords_curscale, scale}),
                      Use("grid_sample wrap", scale, scale,
                          {depth_curscale, scale, pix_coords_curscale})}
                         \cup gen_pcl_wrap_other(outs3, scale, frame_id)
           outs4 == IF s_opt.cvo = "off" THEN outs1
                    ELSE IF s_opt.cvo = "dense" THEN outs2 ELSE outs3
       IN  /\ s_outputs' = (IF s_opt.disable_automasking THEN outs4
                            ELSE DictSet(outs4, <<"color_identity", frame_id, scale>>,
                                         source_scale))
           /\ s_uses' = s_uses \cup photo
                 \cup (IF s_opt.cvo = "dense" THEN get_xyz_dense(outs2, frame_id, scale)
                       ELSE IF s_opt.cvo = "sparse" THEN sparse ELSE {})
    /\ s_f' = s_f + 1
    /\ UNCHANGED <<tvars, cvars, xvars, dvars, beside_s, s_pc, s_opt, s_i>>

(* The end of the loop over the neighbours: the next scale, or, after the  *)
(* last one, compute_losses.                                               *)
NextScale ==
    /\ s_pc = "other"
    /\ s_f = Len(Neighbours)
    /\ IF s_i + 1 < Len(s_opt.scales)
       THEN s_i' = s_i + 1 /\ s_pc' = "host"
       ELSE s_i' = 0 /\ s_pc' = "losses"
    /\ s_f' = 0
    /\ UNCHANGED <<tvars, cvars, xvars, dvars, beside_s, s_opt, s_outputs, s_uses>>

(* compute_losses, one iteration of the loop over the scales: the          *)
(* reprojection, identity, predictive-mask and smoothness terms.           *)
LossesOfScale ==
    /\ s_pc = "losses"
    /\ s_i < Len(s_opt.scales)
    /\ LET scale == s_opt.scales[s_i + 1]
           source_scale == IF s_opt.v1_multiscale THEN scale ELSE 0
           disp == scale
           color == scale
           target == source_scale
           frames == {Neighbours[t] : t \in 1..Len(Neighbours)}
           reprojection == {Use("compute_reprojection_loss", scale, source_scale,
                                {s_outputs[<<"color", f, scale>>], target}) : f \in frames}
           identity == {Use("identity_reprojection_loss", scale, source_scale,
                            {source_scale, target}) : f \in frames}
           predictive_mask == IF s_opt.v1_multiscale THEN scale ELSE interpolate(scale)
           masked == {Use("predictive_mask", scale, source_scale,
                          {predictive_mask, s_outputs[<<"color", f, scale>>]}) : f \in frames}
           smooth == {Use("get_smooth_loss", scale, scale, {disp, color})}
       IN  s_uses' = s_uses \cup reprojection \cup smooth
               \cup (IF ~s_opt.disable_automasking THEN identity
                     ELSE IF s_opt.predictive_mask THEN masked ELSE {})
    /\ s_i' = s_i + 1
    /\ s_pc' = IF s_i + 1 = Len(s_opt.scales) THEN "done" ELSE "losses"
    /\ UNCHANGED <<tvars, cvars, xvars, dvars, beside_s, s_opt, s_f, s_outputs>>

NextScales ==
    \/ GenerateHost
    \/ GenerateOther
    \/ NextScale
    \/ LossesOfScale

SpecScales == InitScales /\ [][NextScales]_vars

-----------------------------------------------------------------------------
(* C20: in every back-projection, projection, warping, masking and loss    *)
(* step, the tensors involved have the size of the scale the geometry      *)
(* module and the intrinsics are indexed with; that index is the scale of  *)
(* the iteration for the CVO steps and with v1_multiscale, and 0 for the   *)
(* photometric steps otherwise (full-resolution depth goes with scale-0    *)
(* intrinsics and images).                                                 *)
C20_ScaleConsistent ==
    /\ \A u \in s_uses :
          /\ u.operands = {u.index}
          /\ u.index \in {u.scale, 0}
          /\ s_opt.v1_multiscale => u.index = u.scale
    /\ \A k \in DOMAIN s_outputs :
          (k[1] = "depth" /\ k[2] = 0 /\ ~s_opt.v1_multiscale) => s_outputs[k] = 0

(* Without v1_multiscale, the iteration of scale 1 has used the geometry   *)
(* of scale 0 for the photometric warp and that of scale 1 for the sparse  *)
(* CVO point clouds, and compute_losses has compared at scale 0.           *)
C20_Witness ==
    /\ s_pc = "done"
    /\ ~s_opt.v1_multiscale
    /\ s_opt.cvo = "sparse"
    /\ \E u, v, w \in s_uses :
          /\ u.scale = 1 /\ u.fn = "project_3d" /\ u.index = 0
          /\ v.scale = 1 /\ v.fn = "backproject_depth wrap" /\ v.index = 1
          /\ w.scale = 1 /\ w.fn = "compute_reprojection_loss" /\ w.operands = {0}

(***************************************************************************)
(* The losses dict: the keys compute_losses writes, the terms it adds to   *)
(* the running sums and the keys run_epoch reads.  CVO is active           *)
(* (opt.cvo_loss); frame ids are "0", "-1", "1" and "s".  A key is the     *)
(* sequence of its tokens: each run of letters, each digit and each        *)
(* punctuation mark of the formatted string.                               *)
(***************************************************************************)
MaxBatch == 2

(* The value 1.0 of a loss: every division of the code is exact on it.     *)
KeyUnit == 72

KeyFrameLists == {<<"0", "-1", "1">>, <<"0", "1">>, <<"0", "-1", "1", "s">>}

KeyScaleLists == {<<0>>, <<0, 2>>, <<0, 1, 2, 3>>}

(* inner_prods[(0, 0)] and [(1, 1)] of one sample, and the values          *)
(* inner_prods[(0, 1)] of a sample is drawn from.                          *)
SelfProduct == 2 * KeyUnit

SampleInnerProducts == {KeyUnit, 2 * KeyUnit}

KeyOptions ==
    [frame_ids : KeyFrameLists,
     scales : KeyScaleLists,
     batch_size : 1..MaxBatch,
     cvo_loss_dense : BOOLEAN,
     train_flag : BOOLEAN,
     supervised_by_gt_depth : BOOLEAN,
     sup_cvo_pose_lidar : BOOLEAN,
     cvo_as_loss : BOOLEAN,
     disp_in_loss : BOOLEAN]

(* str(frame_id) and the "f{}" of a key's last field                       *)
FrameStr(frame_id) == IF frame_id = "-1" THEN <<"-", "1">> ELSE <<frame_id>>

FrameField(frame_id) == IF frame_id = "s" THEN <<"fs">> ELSE <<"f">> \o FrameStr(frame_id)

(* name_loss_from_norm_options(["hsv", "xyz"], {"hsv": "ori", "xyz": "ori"}) *)
name_loss_from_norm_options(items_to_cal_gram, norm_tags) ==
    LET RECURSIVE name_loss(_)
        name_loss(n) ==
            IF n = 0 THEN <<>>
            ELSE name_loss(n - 1)
                    \o <<items_to_cal_gram[n], "_", norm_tags[items_to_cal_gram[n]], "_">>
    IN  name_loss(Len(items_to_cal_gram))

CvoItem == name_loss_from_norm_options(<<"hsv", "xyz">>, [hsv |-> "ori", xyz |-> "ori"])

(* "loss_<kind>/{}_{}_s{}_f{}".format(item, gt_mode, scale, frame_id)      *)
SparseKey(kind, item, scale, frame_id) ==
    <<"loss", "_", kind, "/">> \o item \o <<"_", "True", "_", "s">> \o Format(scale)
        \o <<"_">> \o FrameField(frame_id)

(* "loss_<kind>/{}_s{}_f{}".format(True, scale, frame_id)                  *)
DenseKey(kind, scale, frame_id) ==
    <<"loss", "_", kind, "/", "True", "_", "s">> \o Format(scale) \o <<"_">> \o FrameField(frame_id)

(* "loss_pose/<kind>_{}_s{}_f{}".format(item, scale, frame_id)             *)
PoseKey(kind, item, scale, frame_id) ==
    <<"loss", "_", "pose", "/", kind, "_">> \o item \o <<"_", "s">> \o Format(scale)
        \o <<"_">> \o FrameField(frame_id)

(* "loss_pose/<kind>_s{}_f{}".format(scale, frame_id)                      *)
PoseKeyDense(kind, scale, frame_id) ==
    <<"loss", "_", "pose", "/", kind, "_", "s">> \o Format(scale) \o <<"_">> \o FrameField(frame_id)

(* "loss_<kind>/sum", "loss_pose/<kind>_sum"                               *)
SumKey(kind) == <<"loss", "_", kind, "/", "sum">>

PoseSumKey(kind) == <<"loss", "_", "pose", "/", kind, "_", "sum">>

(* "loss_disp/{}".format(scale), "loss/{}".format(scale), "loss"           *)
DispKey(scale) == <<"loss", "_", "disp", "/">> \o Format(scale)

ScaleLossKey(scale) == <<"loss", "/">> \o Format(scale)

LossKey == <<"loss">>

(* The literal "loss_inp/xyz_ori__<n>" of run_epoch.                       *)
CvoAsLossKey(n) == <<"loss", "_", "inp", "/", "xyz", "_", "ori", "_", "_">> \o Format(n)

(* The dict d with the entries of e written over it.                       *)
Update(d, e) == [x \in DOMAIN d \cup DOMAIN e |-> IF x \in DOMAIN e THEN e[x] ELSE d[x]]

(* The dict of a set of <<key, value>> pairs with distinct keys.           *)
DictOf(pairs) ==
    [x \in {p[1] : p \in pairs} |-> (CHOOSE p \in pairs : p[1] = x)[2]]

neighbours(frame_ids) == Tail(frame_ids)

(* compute_cvo_loss_with_options on one sample: loss_from_inner_prod and  *)
(* the negated inner product.                                              *)
compute_cvo_loss_with_options(inp01) ==
    LET inner_prods == (<<0, 0>> :> SelfProduct) @@ (<<1, 1>> :> SelfProduct)
                           @@ (<<0, 1>> :> inp01)
        f1_f2_dist == inner_prods[<<0, 0>>] + inner_prods[<<1, 1>>]
                          - 2 * inner_prods[<<0, 1>>]
        cos_similarity == KeyUnit - (inner_prods[<<0, 1>>] * KeyUnit) \div SelfProduct
    IN  [f1_f2_dist |-> f1_f2_dist, cos_similarity |-> cos_similarity,
         inner_prod |-> 0 - inner_prods[<<0, 1>>]]

(* gen_innerp_dense: the hard-coded pairs and ground-truth modes.          *)
dense_id_pairs == <<(<<"0", "0">>), (<<"1", "1">>), (<<"-1", "-1">>), (<<"0", "-1">>), (<<"0", "1">>)>>

gt_pairs == {<<TRUE, TRUE>>, <<TRUE, FALSE>>, <<FALSE, FALSE>>}

(* The pairs gen_innerp_dense handles before a frame it reads is missing   *)
(* from outputs (get_xyz_dense ran for the frames of frame_ids only), the  *)
(* failing pair included.                                                  *)
PairsHandled(frame_ids) ==
    LET known == Range(frame_ids)
        bad == {n \in 1..Len(dense_id_pairs) :
                   ~(dense_id_pairs[n][1] \in known /\ dense_id_pairs[n][2] \in known)}
        last == IF bad = {} THEN Len(dense_id_pairs)
                ELSE CHOOSE n \in bad : \A m \in bad : n <= m
    IN  SubSeq(dense_id_pairs, 1, last)

(* calc_inp_from_dense on the whole batch for one pair of frames.          *)
DenseInnerProduct(id_pair, sample_inps) ==
    IF id_pair[1] = id_pair[2] THEN SelfProduct * Len(sample_inps) ELSE SumSeq(sample_inps)

gen_innerp_dense(o, sample_inps) ==
    [key \in {<<id_pair, scale, gt_pair>> :
                 id_pair \in Range(dense_id_pairs), scale \in Range(o.scales),
                 gt_pair \in gt_pairs}
        |-> DenseInnerProduct(key[1], sample_inps)]

(* The keys gen_cvo_loss_dense(innerps, id_pair, scale, gt_pair) looks up. *)
DenseLookups(id_pair, scale, gt_pair) ==
    {<<id_pair, scale, gt_pair>>,
     <<(<<id_pair[1], id_pair[1]>>), scale, (<<gt_pair[1], gt_pair[1]>>)>>,
     <<(<<id_pair[2], id_pair[2]>>), scale, (<<gt_pair[2], gt_pair[2]>>)>>}

(* gen_cvo_loss_dense for a pair (0, frame_id) of distinct frames.         *)
key_gen_cvo_loss_dense(inps, id_pair, scale, gt_pair) ==
    LET inp == inps[<<id_pair, scale, gt_pair>>]
        inp_ii == inps[<<(<<id_pair[1], id_pair[1]>>), scale, (<<gt_pair[1], gt_pair[1]>>)>>]
        inp_jj == inps[<<(<<id_pair[2], id_pair[2]>>), scale, (<<gt_pair[2], gt_pair[2]>>)>>]
    IN  [inp |-> inp,
         f_dist |-> inp_ii + inp_jj - 2 * inp,
         cos_sim |-> KeyUnit - (inp * KeyUnit) \div inp_ii]

(* The <<frame_id, scale>> pairs of a loop over frames with an inner loop  *)
(* over scales, in the order of the iterations.                            *)
FrameScaleLoop(frames, scales) ==
    [n \in 1..(Len(frames) * Len(scales)) |->
        <<frames[((n - 1) \div Len(scales)) + 1], scales[((n - 1) % Len(scales)) + 1]>>]

(* compute_losses, the pose losses of the dense mode: the keys looked up   *)
(* in innerps and the entries written.                                     *)
PoseLookupsDense(o) ==
    UNION {DenseLookups(<<"0", it[1]>>, it[2], <<TRUE, TRUE>>) :
              it \in Range(FrameScaleLoop(neighbours(o.frame_ids), o.scales))}

PoseLossesDense(o, inps) ==
    LET loop == FrameScaleLoop(neighbours(o.frame_ids), o.scales)
        res == [n \in 1..Len(loop) |->
                   key_gen_cvo_loss_dense(inps, <<"0", loop[n][1]>>, loop[n][2], <<TRUE, TRUE>>)]
        written == UNION {{<<PoseKeyDense("cvo", loop[n][2], loop[n][1]), res[n].f_dist>>,
                           <<PoseKeyDense("cos", loop[n][2], loop[n][1]), res[n].cos_sim>>,
                           <<PoseKeyDense("inp", loop[n][2], loop[n][1]), res[n].inp>>} :
                             n \in 1..Len(loop)}
    IN  Update(DictOf(written),
               (PoseSumKey("cos") :> SumSeq([n \in 1..Len(loop) |-> res[n].cos_sim]))
                   @@ (PoseSumKey("cvo") :> SumSeq([n \in 1..Len(loop) |-> res[n].f_dist])))

(* calc_cvo_pose_loss: for each neighbour and scale the loop over the      *)
(* samples adds sample ib's share to the running cvo_losses, cos_losses    *)
(* and innerp_losses, and then, still inside the loop over ib, writes the  *)
(* running values under their keys and adds them to the two sums.          *)
calc_cvo_pose_loss(o, sample_inps) ==
    LET loop == FrameScaleLoop(neighbours(o.frame_ids), o.scales)
        share == (Len(o.frame_ids) - 1) * o.batch_size
        sample_loss == [ib \in 1..o.batch_size |-> compute_cvo_loss_with_options(sample_inps[ib])]
        cvo_losses == [ib \in 1..o.batch_size |->
                          SumSeq([j \in 1..ib |-> sample_loss[j].f1_f2_dist \div share])]
        cos_losses == [ib \in 1..o.batch_size |->
                          SumSeq([j \in 1..ib |-> sample_loss[j].cos_similarity \div share])]
        innerp_losses == [ib \in 1..o.batch_size |->
                             SumSeq([j \in 1..ib |-> sample_loss[j].inner_prod \div share])]
        written == UNION {{<<PoseKey("cvo", CvoItem, loop[n][2], loop[n][1]), cvo_losses[o.batch_size]>>,
                           <<PoseKey("cos", CvoItem, loop[n][2], loop[n][1]), cos_losses[o.batch_size]>>,
                           <<PoseKey("inp", CvoItem, loop[n][2], loop[n][1]), innerp_losses[o.batch_size]>>} :
                             n \in 1..Len(loop)}
    IN  Update(DictOf(written),
               (PoseSumKey("cos") :> Len(loop) * SumSeq(cos_losses))
                   @@ (PoseSumKey("cvo") :> Len(loop) * SumSeq(cvo_losses)))

(* compute_losses, the CVO terms of one scale against the ground truth:    *)
(* the frames looped over, the entries written and the term each frame     *)
(* adds to loss_cvo/sum, loss_cos/sum and loss_inp/sum.                    *)
CvoFrames(o) == IF o.cvo_loss_dense THEN neighbours(o.frame_ids) ELSE o.frame_ids

CvoLookupsDense(o, scale) ==
    UNION {DenseLookups(<<"0", frame_id>>, scale, <<TRUE, FALSE>>) :
              frame_id \in Range(neighbours(o.frame_ids))}

CvoTermDense(inps, scale, frame_id) ==
    LET res == key_gen_cvo_loss_dense(inps, <<"0", frame_id>>, scale, <<TRUE, FALSE>>)
    IN  [frame_id |-> frame_id, scale |-> scale, mode |-> "dense",
         cvo |-> res.f_dist, cos |-> res.cos_sim, inp |-> res.inp]

CvoTermSparse(o, sample_inps, scale, frame_id) ==
    LET sample_loss == [ib \in 1..o.batch_size |-> compute_cvo_loss_with_options(sample_inps[ib])]
    IN  [frame_id |-> frame_id, scale |-> scale, mode |-> "sparse",
         cvo |-> SumSeq([ib \in 1..o.batch_size |-> sample_loss[ib].f1_f2_dist \div o.batch_size]),
         cos |-> SumSeq([ib \in 1..o.batch_size |-> sample_loss[ib].cos_similarity \div o.batch_size]),
         inp |-> SumSeq([ib \in 1..o.batch_size |-> sample_loss[ib].inner_prod \div o.batch_size])]

CvoTerms(o, inps, sample_inps, scale) ==
    LET frames == CvoFrames(o)
    IN  [n \in 1..Len(frames) |->
            IF o.cvo_loss_dense THEN CvoTermDense(inps, scale, frames[n])
            ELSE CvoTermSparse(o, sample_inps, scale, frames[n])]

CvoKey(o, kind, scale, frame_id) ==
    IF o.cvo_loss_dense THEN DenseKey(kind, scale, frame_id)
    ELSE SparseKey(kind, CvoItem, scale, frame_id)

CvoWritten(o, terms) ==
    DictOf(UNION {{<<CvoKey(o, "cvo", terms[n].scale, terms[n].frame_id), terms[n].cvo>>,
                   <<CvoKey(o, "cos", terms[n].scale, terms[n].frame_id), terms[n].cos>>,
                   <<CvoKey(o, "inp", terms[n].scale, terms[n].frame_id), terms[n].inp>>} :
                     n \in 1..Len(terms)})

(* The keys run_epoch reads to assemble the loss it back-propagates.       *)
RunEpochReads(o) ==
    (IF o.cvo_as_loss THEN {CvoAsLossKey(n) : n \in 0..3} ELSE {LossKey})
        \cup (IF o.disp_in_loss THEN {DispKey(n) : n \in 0..3} ELSE {})
        \cup (IF o.supervised_by_gt_depth THEN {SumKey("inp")} ELSE {})
        \cup (IF o.sup_cvo_pose_lidar THEN {PoseSumKey("cos")} ELSE {})

InitKeys ==
    /\ IdleTrainer
    /\ IdleSparse
    /\ IdleDense
    /\ IdleLosses
    /\ IdleBatch
    /\ IdleAlign
    /\ IdleMasks
    /\ IdleScales
    /\ IdleDepth
    /\ IdlePoses
    /\ k_pc = "innerps"
    /\ k_opt \in KeyOptions
    /\ k_in \in [1..k_opt.batch_size -> SampleInnerProducts]
    /\ k_i = 0
    /\ k_innerps = EmptyDict
    /\ k_reads = {}
    /\ k_losses = EmptyDict
    /\ k_terms = <<>>
    /\ k_err = ""

(* compute_losses 1062-1063: gen_innerp_dense in the dense mode.           *)
KeysInnerps ==
    /\ k_pc = "innerps"
    /\ IF k_opt.cvo_loss_dense
       THEN LET handled == PairsHandled(k_opt.frame_ids)
                complete == \A n \in 1..Len(dense_id_pairs) :
                                /\ dense_id_pairs[n][1] \in Range(k_opt.frame_ids)
                                /\ dense_id_pairs[n][2] \in Range(k_opt.frame_ids)
            IN  /\ k_reads' = UNION {{handled[n][1], handled[n][2]} : n \in 1..Len(handled)}
                /\ IF complete
                   THEN /\ k_innerps' = gen_innerp_dense(k_opt, k_in)
                        /\ k_pc' = "pose"
                        /\ k_err' = ""
                   ELSE /\ k_innerps' = k_innerps
                        /\ k_pc' = "failed"
                        /\ k_err' = "KeyError"
       ELSE /\ k_pc' = "pose"
            /\ UNCHANGED <<k_innerps, k_reads, k_err>>
    /\ UNCHANGED <<tvars, cvars, xvars, dvars, beside_k, k_opt, k_in, k_i, k_losses, k_terms>>

(* compute_losses 1065-1089: the pose losses when validating or with       *)
(* sup_cvo_pose_lidar, loss_disp/<scale> and the three zeroed sums.        *)
KeysPose ==
    /\ k_pc = "pose"
    /\ LET o == k_opt
           pose_due == ~o.train_flag \/ o.sup_cvo_pose_lidar
           raised == pose_due /\ o.cvo_loss_dense
                         /\ ~(PoseLookupsDense(o) \subseteq DOMAIN k_innerps)
           pose == IF ~pose_due THEN EmptyDict
                   ELSE IF o.cvo_loss_dense THEN PoseLossesDense(o, k_innerps)
                   ELSE calc_cvo_pose_loss(o, k_in)
           disp == [key \in {DispKey(o.scales[n]) : n \in 1..Len(o.scales)} |-> KeyUnit]
           sums == [key \in {SumKey("cvo"), SumKey("cos"), SumKey("inp")} |-> 0]
       IN  IF raised
           THEN /\ k_pc' = "failed"
                /\ k_err' = "KeyError"
                /\ k_losses' = k_losses
           ELSE /\ k_pc' = "scales"
                /\ k_err' = ""
                /\ k_losses' = Update(Update(Update(k_losses, pose), disp), sums)
    /\ UNCHANGED <<tvars, cvars, xvars, dvars, beside_k, k_opt, k_in, k_i, k_innerps, k_reads, k_terms>>

(* compute_losses 1091-1313: one iteration of the loop over opt.scales.    *)
KeysScale ==
    /\ k_pc = "scales"
    /\ k_i < Len(k_opt.scales)
    /\ LET o == k_opt
           scale == o.scales[k_i + 1]
           cvo_due == ~o.train_flag \/ o.supervised_by_gt_depth
           raised == cvo_due /\ o.cvo_loss_dense
                        /\ ~(CvoLookupsDense(o, scale) \subseteq DOMAIN k_innerps)
           terms == IF cvo_due /\ ~raised THEN CvoTerms(o, k_innerps, k_in, scale) ELSE <<>>
           sums == (SumKey("cvo") :> k_losses[SumKey("cvo")]
                                        + SumSeq([n \in 1..Len(terms) |-> terms[n].cvo]))
                   @@ (SumKey("cos") :> k_losses[SumKey("cos")]
                                        + SumSeq([n \in 1..Len(terms) |-> terms[n].cos]))
                   @@ (SumKey("inp") :> k_losses[SumKey("inp")]
                                        + SumSeq([n \in 1..Len(terms) |-> terms[n].inp]))
       IN  IF raised
           THEN /\ k_pc' = "failed"
                /\ k_err' = "KeyError"
                /\ UNCHANGED <<k_i, k_losses, k_terms>>
           ELSE /\ k_pc' = "scales"
                /\ k_err' = ""
                /\ k_i' = k_i + 1
                /\ k_terms' = k_terms \o terms
                /\ k_losses' = Update(Update(Update(k_losses, CvoWritten(o, terms)), sums),
                                      ScaleLossKey(scale) :> KeyUnit)
    /\ UNCHANGED <<tvars, cvars, xvars, dvars, beside_k, k_opt, k_in, k_innerps, k_reads>>

(* compute_losses 1315-1323: losses["loss"] and the return, to run_epoch   *)
(* when training and to val otherwise.                                     *)
KeysReturn ==
    /\ k_pc = "scales"
    /\ k_i = Len(k_opt.scales)
    /\ k_losses' = Update(k_losses, LossKey :> KeyUnit)
    /\ k_pc' = IF k_opt.train_flag THEN "run_epoch" ELSE "val"
    /\ UNCHANGED <<tvars, cvars, xvars, dvars, beside_k, k_opt, k_in, k_i, k_innerps, k_reads,
                   k_terms, k_err>>

(* run_epoch 265-281: the loss is assembled from the keys it reads.        *)
KeysRunEpoch ==
    /\ k_pc = "run_epoch"
    /\ IF RunEpochReads(k_opt) \subseteq DOMAIN k_losses
       THEN /\ k_pc' = "backward"
            /\ k_err' = ""
       ELSE /\ k_pc' = "failed"
            /\ k_err' = "KeyError"
    /\ UNCHANGED <<tvars, cvars, xvars, dvars, beside_k, k_opt, k_in, k_i, k_innerps, k_reads,
                   k_losses, k_terms>>

(* val 430-435: the losses of the validation batch are logged.             *)
KeysValLog ==
    /\ k_pc = "val"
    /\ k_pc' = "logged"
    /\ UNCHANGED <<tvars, cvars, xvars, dvars, beside_k, k_opt, k_in, k_i, k_innerps, k_reads,
                   k_losses, k_terms, k_err>>

NextKeys ==
    \/ KeysInnerps
    \/ KeysPose
    \/ KeysScale
    \/ KeysReturn
    \/ KeysRunEpoch
    \/ KeysValLog

SpecKeys == InitKeys /\ [][NextKeys]_vars

(* compute_losses has returned its losses dict.                            *)
LossesReturned == k_pc \in {"run_epoch", "val", "backward", "logged"}

CvoDue(o) == ~o.train_flag \/ o.supervised_by_gt_depth

(* C21: with the CVO loss active, compute_losses adds to loss_cvo/sum,     *)
(* loss_cos/sum and loss_inp/sum exactly one term per (neighbour frame,    *)
(* scale), for the frames of frame_ids[1:] only and none for the host      *)
(* frame 0, in the sparse mode as in the dense mode.                       *)
C21_OneTermPerNeighbourAndScale ==
    (LossesReturned /\ CvoDue(k_opt)) =>
        /\ \A n \in 1..Len(k_terms) : k_terms[n].frame_id # "0"
        /\ \A frame_id \in Range(neighbours(k_opt.frame_ids)), scale \in Range(k_opt.scales) :
              Cardinality({n \in 1..Len(k_terms) :
                              k_terms[n].frame_id = frame_id /\ k_terms[n].scale = scale}) = 1
        /\ Len(k_terms) = (Len(k_opt.frame_ids) - 1) * Len(k_opt.scales)

(* The sum the claim C22 states: over neighbours and scales, the samples'  *)
(* losses summed and divided by (#neighbours) * batch_size.                *)
EqualWeightSum(o, sample_inps, field) ==
    LET loop == FrameScaleLoop(neighbours(o.frame_ids), o.scales)
        share == (Len(o.frame_ids) - 1) * o.batch_size
        per_pair == SumSeq([ib \in 1..o.batch_size |->
                               compute_cvo_loss_with_options(sample_inps[ib])[field]]) \div share
    IN  Len(loop) * per_pair

(* C22: in calc_cvo_pose_loss every sample counts once and with equal      *)
(* weight: loss_pose/cos_sum and loss_pose/cvo_sum are the sum over        *)
(* neighbours and scales of the samples' losses divided by                 *)
(* (#neighbours) * batch_size, for every batch size.                       *)
C22_PoseSumEqualWeights ==
    (k_pc = "scales" /\ ~k_opt.cvo_loss_dense /\ (~k_opt.train_flag \/ k_opt.sup_cvo_pose_lidar)) =>
        /\ k_losses[PoseSumKey("cos")] = EqualWeightSum(k_opt, k_in, "cos_similarity")
        /\ k_losses[PoseSumKey("cvo")] = EqualWeightSum(k_opt, k_in, "f1_f2_dist")

(* C24: every key run_epoch reads to assemble the training loss was        *)
(* written by compute_losses for the same batch, whatever cvo_as_loss,     *)
(* disp_in_loss, supervised_by_gt_depth, sup_cvo_pose_lidar and the        *)
(* scales are; run_epoch never fails on a missing key.                     *)
C24_KeysReadAreWritten ==
    k_pc = "run_epoch" => RunEpochReads(k_opt) \subseteq DOMAIN k_losses

(* C25: in the dense mode, for every neighbour of frame_ids[1:], "s"       *)
(* included, and every scale, the inner products gen_cvo_loss_dense looks  *)
(* up for (0, f), (0, 0) and (f, f) were computed by gen_innerp_dense,     *)
(* and gen_innerp_dense reads frames of frame_ids only.                    *)
C25_DenseInnerProductsComputed ==
    (k_opt.cvo_loss_dense /\ k_pc # "innerps") =>
        /\ k_reads \subseteq Range(k_opt.frame_ids)
        /\ \A scale \in Range(k_opt.scales) :
              /\ CvoLookupsDense(k_opt, scale) \subseteq DOMAIN k_innerps
              /\ PoseLookupsDense(k_opt) \subseteq DOMAIN k_innerps

(* The cross inner product inp(0, 1) a term of the sums stands for: the    *)
(* batch's dense inner product, or the mean of the samples' in the sparse  *)
(* mode.                                                                   *)
CrossInnerProduct(o, sample_inps, term) ==
    IF term.mode = "dense" THEN DenseInnerProduct(<<"0", term.frame_id>>, sample_inps)
    ELSE SumSeq([ib \in 1..o.batch_size |-> sample_inps[ib] \div o.batch_size])

(* C30: the sparse and the dense mode use the same sign: the value stored  *)
(* under the loss_inp keys and added to loss_inp/sum is the negated cross  *)
(* inner product -inp(0, 1) in both modes.                                 *)
C30_SameSignOfInnerProduct ==
    LossesReturned =>
        /\ \A n \in 1..Len(k_terms) :
              /\ k_terms[n].inp = 0 - CrossInnerProduct(k_opt, k_in, k_terms[n])
              /\ k_losses[CvoKey(k_opt, "inp", k_terms[n].scale, k_terms[n].frame_id)]
                     = 0 - CrossInnerProduct(k_opt, k_in, k_terms[n])
        /\ k_losses[SumKey("inp")]
               = 0 - SumSeq([n \in 1..Len(k_terms) |-> CrossInnerProduct(k_opt, k_in, k_terms[n])])

(* The backward passes run so far and those whose gradient an optimizer    *)
(* step has applied.                                                       *)
Backwards == SumSeq(applied) + grad

Applied == SumSeq(applied)

(* C23: every gradient of a training backward pass is eventually applied:  *)
(* each loss.backward() is followed by an optimizer step that includes     *)
(* it, nothing is left unapplied at Done, and a run of at least            *)
(* iters_per_update batches has updated the parameters at least once.      *)
C23_GradientsApplied ==
    /\ \A n \in 1..(MaxEpochs * MaxTrainSamples) : (Backwards >= n) ~> (pc = "failed" \/ Applied >= n)
    /\ [](pc = "done" => grad = 0)
    /\ [](pc = "done" /\ Backwards >= opt.iters_per_update => adam_t >= 1)

(***************************************************************************)
(* Runs of train() long enough to pass step 2000: two epochs of 1050       *)
(* batches, so that step 2000 is batch 950 of the second epoch.            *)
(***************************************************************************)
LongOptions ==
    [num_epochs        : {2},
     batch_size        : {1},
     num_train_samples : {1050},
     num_val_samples   : {1, 2},
     iters_per_update  : {100},
     save_frequency    : {2},
     log_frequency     : {100, 250}]

InitLong ==
    /\ opt \in LongOptions
    /\ InitTrainer
    /\ IdleSparse
    /\ IdleDense
    /\ IdleRest
    /\ cfg = DefaultConfig
    /\ built = AllComponents(DefaultConfig)
    /\ models = FreshModels(DefaultConfig)
    /\ disk = NoDisk
    /\ err = ""

SpecLong == InitLong /\ [][Next]_vars

(* The condition the claim C28 states for a batch to be logged.            *)
LogCondition ==
    \/ batch_idx % opt.log_frequency = 0 /\ step < 2000
    \/ step % 2000 = 0

(* C28: after a training batch, log and val() run if and only if           *)
(* (batch_idx is a multiple of log_frequency and step < 2000) or step is   *)
(* a multiple of 2000; from step 2000 on validation runs at multiples of   *)
(* 2000 only; it runs after the batch's backward pass and before step is   *)
(* incremented.                                                            *)
C28_LogSchedule ==
    [][/\ pc = "log" => (pc' = "val" <=> LogCondition)
       /\ pc = "log" => (pc' = "inc" <=> ~LogCondition)
       /\ pc = "val" => val_calls' = val_calls + 1
       /\ val_calls' # val_calls =>
             /\ pc = "val"
             /\ LogCondition
             /\ step >= 2000 => step % 2000 = 0
             /\ n_fwd = step + 1
             /\ grad > 0
             /\ step' = step
       /\ step' # step => (pc = "inc" /\ step' = step + 1 /\ n_fwd = step + 1)]_vars

(* Validation is due at step 2000 by the late phase alone, and a batch     *)
(* whose index is a multiple of log_frequency was passed without           *)
(* validation after it.                                                    *)
C28_Witness ==
    /\ pc = "val"
    /\ step = 2000
    /\ batch_idx % opt.log_frequency # 0
    /\ n_fwd = 2001

(* C29: every training forward and backward pass runs with train_flag      *)
(* true, the batches after a validation call and the first batch of every  *)
(* epoch included; every validation forward pass runs with train_flag      *)
(* false; val() returns with the training mode restored.                   *)
C29_ModeDiscipline ==
    /\ fwd[1] = "train" => fwd[2] = TRUE
    /\ fwd[1] = "val" => fwd[2] = FALSE
    /\ pc \in {"batch", "log", "val", "inc"} => train_flag = TRUE

(* The first batch of a later epoch has run its forward and backward pass  *)
(* in training mode after validation calls in the epoch before.            *)
C29_Witness ==
    /\ pc = "log"
    /\ epoch >= 1
    /\ batch_idx = 0
    /\ val_calls >= 1
    /\ fwd = <<"train", TRUE>>

(***************************************************************************)
(* KITTIRAWDataset.get_depth_related: the depth maps and masks of one      *)
(* sample.  A LiDAR cloud with its projection is named by the frame and    *)
(* the camera side it was loaded for; inputs maps each key to the cloud    *)
(* its value was projected from; a key is <<name, frame, scale>>, with ""  *)
(* for the frame and -1 for the scale where the code's key has none.       *)
(***************************************************************************)
DepthFrameLists ==
    {<<"0">>, <<"0", "-1", "1">>, <<"0", "s">>, <<"0", "-1", "1", "s">>, <<"0", "s", "-1">>}

DepthOptions ==
    [frame_idxs : DepthFrameLists,
     num_scales : 1..(MaxScale + 1),
     side : {"l", "r"},
     do_flip : BOOLEAN]

other_side(side) == IF side = "r" THEN "l" ELSE "r"

(* get_depth(folder, frame_index + i, side, do_flip): the cloud read.      *)
get_depth(i, side) == [frame |-> i, side |-> side]

(* The cloud of frame i itself: the stereo frame is the other camera at    *)
(* the same time.                                                          *)
OwnCloud(o, i) == IF i = "s" THEN get_depth("0", other_side(o.side)) ELSE get_depth(i, o.side)

Unbound == [frame |-> "", side |-> ""]

InitDepth ==
    /\ IdleTrainer
    /\ IdleSparse
    /\ IdleDense
    /\ IdleLosses
    /\ IdleBatch
    /\ IdleAlign
    /\ IdleMasks
    /\ IdleScales
    /\ IdleKeys
    /\ IdlePoses
    /\ g_pc = "begin"
    /\ g_opt \in DepthOptions
    /\ g_i = 0
    /\ g_velo = Unbound
    /\ g_inputs = EmptyDict

(* get_depth_related up to the loop: depth_gt and the intrinsics.          *)
GetDepthBegin ==
    /\ g_pc = "begin"
    /\ g_inputs' = Update([key \in {<<"K", "", j>> : j \in 0..(g_opt.num_scales - 1)}
                                    \cup {<<"inv_K", "", j>> : j \in 0..(g_opt.num_scales - 1)}
                              |-> get_depth("0", g_opt.side)],
                          <<"depth_gt", "", -1>> :> get_depth("0", g_opt.side))
    /\ g_pc' = "frames"
    /\ UNCHANGED <<tvars, cvars, xvars, dvars, beside_g, g_opt, g_i, g_velo>>

(* One iteration of `for i in self.frame_idxs`: the stereo branch assigns  *)
(* inputs[("depth_gt_scale", "s", -1)] only, the other branch also         *)
(* velo_rect and P_rect_norm; the loop over the scales projects velo_rect  *)
(* with P_rect_norm.                                                       *)
GetDepthFrame ==
    /\ g_pc = "frames"
    /\ g_i < Len(g_opt.frame_idxs)
    /\ LET i == g_opt.frame_idxs[g_i + 1]
           velo_rect == IF i = "s" THEN g_velo ELSE get_depth(i, g_opt.side)
           full == IF i = "s"
                   THEN <<"depth_gt_scale", i, -1>> :> get_depth("0", other_side(g_opt.side))
                   ELSE (<<"depth_gt_scale", i, -1>> :> velo_rect)
                            @@ (<<"velo_gt", i, -1>> :> velo_rect)
           scaled == [key \in {<<name, i, j>> :
                                  name \in {"depth_gt_scale", "depth_mask", "depth_mask_gt"},
                                  j \in 0..(g_opt.num_scales - 1)}
                         |-> velo_rect]
       IN  /\ g_velo' = velo_rect
           /\ g_inputs' = Update(Update(g_inputs, full), scaled)
    /\ g_i' = g_i + 1
    /\ g_pc' = IF g_i + 1 = Len(g_opt.frame_idxs) THEN "done" ELSE "frames"
    /\ UNCHANGED <<tvars, cvars, xvars, dvars, beside_g, g_opt>>

NextDepth ==
    \/ GetDepthBegin
    \/ GetDepthFrame

SpecDepth == InitDepth /\ [][NextDepth]_vars

(* C26: for every frame i, "s" included, and every scale j,                *)
(* depth_gt_scale(i, j), depth_mask(i, j) and depth_mask_gt(i, j) are      *)
(* built from frame i's own LiDAR points and projection, never from those  *)
(* of a frame loaded earlier.                                              *)
C26_OwnLidarPerFrame ==
    \A key \in DOMAIN g_inputs :
        key[1] \in {"depth_gt_scale", "depth_mask", "depth_mask_gt"} =>
            g_inputs[key] = OwnCloud(g_opt, key[2])

(***************************************************************************)
(* predict_poses and the transform generate_images_pred takes for each     *)
(* neighbouring frame.  Frame ids are strings; FrameNumber gives the       *)
(* integer of a temporal frame.                                            *)
(***************************************************************************)
PoseFrameLists ==
    {<<"0", "-1", "1">>, <<"0", "1">>, <<"0", "-1">>, <<"0", "1", "-1">>,
     <<"0", "-1", "1", "s">>, <<"0", "s", "1">>, <<"0", "-2", "-1", "1", "2">>}

PoseOptions ==
    [frame_ids : PoseFrameLists,
     pose_model_input : {"pairs", "all"},
     pose_model_type : {"separate_resnet", "shared", "posecnn"}]

FrameNumber(f_i) ==
    (("-2" :> (0 - 2)) @@ ("-1" :> (0 - 1)) @@ ("0" :> 0) @@ ("1" :> 1) @@ ("2" :> 2))[f_i]

(* __init__: num_input_frames and num_pose_frames                          *)
num_pose_frames(o) == IF o.pose_model_input = "pairs" THEN 2 ELSE Len(o.frame_ids)

(* A pose network that is always given the host frame first.               *)
HostFirst(f_i) == <<"0", f_i>>

(* predict_poses 376-380: the two frames in temporal order.                *)
pose_inputs(f_i) == IF FrameNumber(f_i) < 0 THEN <<f_i, "0">> ELSE <<"0", f_i>>

(* The frames frame_ids holds beside "s", in its order.                    *)
RECURSIVE Temporal(_)
Temporal(frame_ids) ==
    IF frame_ids = <<>> THEN <<>>
    ELSE IF Head(frame_ids) = "s" THEN Temporal(Tail(frame_ids))
    ELSE <<Head(frame_ids)>> \o Temporal(Tail(frame_ids))

InitPoses ==
    /\ IdleTrainer
    /\ IdleSparse
    /\ IdleDense
    /\ IdleLosses
    /\ IdleBatch
    /\ IdleAlign
    /\ IdleMasks
    /\ IdleScales
    /\ IdleKeys
    /\ IdleDepth
    /\ p_pc = "predict_poses"
    /\ p_opt \in PoseOptions
    /\ p_i = 0
    /\ p_calls = <<>>
    /\ p_outputs = EmptyDict
    /\ p_T = EmptyDict

(* predict_poses 364-373: the branch taken.                                *)
PredictPoses ==
    /\ p_pc = "predict_poses"
    /\ p_pc' = IF num_pose_frames(p_opt) = 2 THEN "pairs" ELSE "all"
    /\ UNCHANGED <<tvars, cvars, xvars, dvars, beside_p, p_opt, p_i, p_calls, p_outputs, p_T>>

(* predict_poses 374-393: one iteration of the loop over frame_ids[1:],    *)
(* a forward pass of the pose network for a frame other than "s".          *)
PredictPair ==
    /\ p_pc = "pairs"
    /\ p_i < Len(p_opt.frame_ids) - 1
    /\ LET f_i == p_opt.frame_ids[p_i + 2]
       IN  IF f_i # "s"
           THEN /\ p_calls' = Append(p_calls, pose_inputs(f_i))
                /\ p_outputs' = Update(p_outputs,
                                       <<"cam_T_cam", "0", f_i>> :>
                                           [source |-> "pose", call |-> Len(p_calls) + 1,
                                            column |-> 0, invert |-> FrameNumber(f_i) < 0])
           ELSE UNCHANGED <<p_calls, p_outputs>>
    /\ p_i' = p_i + 1
    /\ p_pc' = IF p_i + 1 = Len(p_opt.frame_ids) - 1 THEN "generate" ELSE "pairs"
    /\ UNCHANGED <<tvars, cvars, xvars, dvars, beside_p, p_opt, p_T>>

(* predict_poses 395-414: all frames but "s" in one forward pass, the      *)
(* pose of the i-th neighbour from column i, none inverted.                *)
PredictAll ==
    /\ p_pc = "all"
    /\ p_calls' = <<Temporal(p_opt.frame_ids)>>
    /\ p_outputs' = [key \in {<<"cam_T_cam", "0", p_opt.frame_ids[i + 2]>> :
                                 i \in {n \in 0..(Len(p_opt.frame_ids) - 2) :
                                           p_opt.frame_ids[n + 2] # "s"}}
                        |-> [source |-> "pose", call |-> 1,
                             column |-> CHOOSE i \in 0..(Len(p_opt.frame_ids) - 2) :
                                            p_opt.frame_ids[i + 2] = key[3],
                             invert |-> FALSE]]
    /\ p_i' = Len(p_opt.frame_ids) - 1
    /\ p_pc' = "generate"
    /\ UNCHANGED <<tvars, cvars, xvars, dvars, beside_p, p_opt, p_T>>

(* generate_images_pred 762-767: T of each neighbouring frame.             *)
GenerateTransforms ==
    /\ p_pc = "generate"
    /\ p_T' = [frame_id \in Range(Tail(p_opt.frame_ids)) |->
                  IF frame_id = "s"
                  THEN [source |-> "stereo_T", call |-> 0, column |-> 0, invert |-> FALSE]
                  ELSE p_outputs[<<"cam_T_cam", "0", frame_id>>]]
    /\ p_pc' = "done"
    /\ UNCHANGED <<tvars, cvars, xvars, dvars, beside_p, p_opt, p_i, p_calls, p_outputs>>

NextPoses ==
    \/ PredictPoses
    \/ PredictPair
    \/ PredictAll
    \/ GenerateTransforms

SpecPoses == InitPoses /\ [][NextPoses]_vars

====
